---- MODULE Spec2Model ----
(***************************************************************************)
(* The PDF object-graph operations of src/tauri/src-tauri/src/pdf.rs       *)
(* (merge_pdfs, delete_pages, images_to_pdf) over the lopdf Document       *)
(* model: an arena ObjectId -> Object, a trailer and max_id.               *)
(***************************************************************************)
EXTENDS Integers, Sequences, FiniteSets, TLC

(***************************************************************************)
(* Bounds of the model.                                                    *)
(***************************************************************************)
\* longest input list handed to merge_pdfs / images_to_pdf
MaxInputs == 3
\* longest page list handed to delete_pages
MaxDelete == 3
\* largest page number requested of delete_pages
MaxPageNumber == 5
MaxCalls == 2
MaxSeqInputs == 2
MaxSeqDelete == 1
MaxConcPage == 2
MaxLiveInputs == 3
MaxLiveDelete == 2
\* the tasks that call the DownloadManager, one call each
MaxTasks == 3
\* the chunks a response stream yields at most
MaxChunks == 2

(***************************************************************************)
(* lopdf::Object, a tagged union.  A dictionary is a function from key     *)
(* strings to Objects, an array a sequence of Objects, an ObjectId the     *)
(* pair <<object number, generation>>.                                     *)
(***************************************************************************)
Null == [t |-> "Null"]
Integer(n) == [t |-> "Integer", int |-> n]
Name(s) == [t |-> "Name", name |-> s]
String(s) == [t |-> "String", str |-> s]
Reference(id) == [t |-> "Reference", ref |-> id]
Array(items) == [t |-> "Array", arr |-> items]
Dictionary(d) == [t |-> "Dictionary", dict |-> d]
\* a stream is its dictionary and an opaque payload
Stream(d, bytes) == [t |-> "Stream", dict |-> d, content |-> bytes]

R(n) == Reference(<<n, 0>>)

\* the value of no Document / no file / no result
NoDoc == [none |-> TRUE]
NoFile == [kind |-> "none"]
Junk == [kind |-> "junk"]
NoResult == [pending |-> TRUE]
Ok == [ok |-> TRUE]
Err(msg) == [ok |-> FALSE, err |-> msg]

Range(f) == {f[x] : x \in DOMAIN f}

\* Body at the value of v: v is evaluated once, where a LET name is evaluated at
\* each of its uses when TLC computes ENABLED
Let(v, Body(_)) == CHOOSE r \in {Body(x) : x \in {v}} : TRUE

\* the empty function, as an empty id_map
EmptyMap == [x \in {} |-> <<0, 0>>]

(***************************************************************************)
(* Ord on ObjectId = (u32, u16): the iteration order of the BTreeMap       *)
(* Document::objects.                                                      *)
(***************************************************************************)
IdLess(a, b) == a[1] < b[1] \/ (a[1] = b[1] /\ a[2] < b[2])

MinId(S) == CHOOSE a \in S : \A b \in S \ {a} : IdLess(a, b)

RECURSIVE SortedIds(_)
SortedIds(S) ==
    IF S = {} THEN <<>>
    ELSE Let(MinId(S), LAMBDA a : <<a>> \o Let(S \ {a}, LAMBDA rest : SortedIds(rest)))

(***************************************************************************)
(* lopdf accessors used by pdf.rs.                                         *)
(***************************************************************************)
\* Dictionary::get(key) is Ok
Has(d, key) == key \in DOMAIN d

\* Document::get_object(id) is Ok
HasObject(doc, id) == id \in DOMAIN doc.objects

\* Document::get_dictionary(id) is Ok
IsDictAt(doc, id) == HasObject(doc, id) /\ doc.objects[id].t = "Dictionary"

\* Dictionary::get(key).and_then(Object::as_reference) is Ok
HasRef(d, key) == Has(d, key) /\ d[key].t = "Reference"

\* Document::catalog(): trailer.get(b"Root").as_reference, then get_dictionary
CatalogOk(doc) == HasRef(doc.trailer, "Root") /\ IsDictAt(doc, doc.trailer["Root"].ref)

Catalog(doc) == doc.objects[doc.trailer["Root"].ref].dict

\* the Pages reference of the catalog resolves: catalog.get(b"Pages").as_reference
PagesRefOk(doc) == CatalogOk(doc) /\ HasRef(Catalog(doc), "Pages")

PagesId(doc) == Catalog(doc)["Pages"].ref

\* Dictionary type name: get(b"Type").as_name, "" when absent
TypeName(d) == IF Has(d, "Type") /\ d["Type"].t = "Name" THEN d["Type"].name ELSE ""

\* the inline Kids array of a page tree node, <<>> when it has none
KidsOf(doc, id) ==
    IF IsDictAt(doc, id) /\ Has(doc.objects[id].dict, "Kids")
                         /\ doc.objects[id].dict["Kids"].t = "Array"
    THEN doc.objects[id].dict["Kids"].arr
    ELSE <<>>

(***************************************************************************)
(* Document::get_pages(): the leaf Page ids in document order, a depth-    *)
(* first walk of Kids that yields a kid of Type Page, descends into a kid  *)
(* of Type Pages and skips anything else.  fuel bounds the depth.          *)
(***************************************************************************)
RECURSIVE PageIter(_, _, _)
PageIter(doc, kids, fuel) ==
    IF kids = <<>> THEN <<>>
    ELSE LET kid == Head(kids)
             rest == PageIter(doc, Tail(kids), fuel)
         IN  IF kid.t # "Reference" \/ ~IsDictAt(doc, kid.ref) THEN rest
             ELSE LET ty == TypeName(doc.objects[kid.ref].dict)
                  IN  CASE ty = "Page" -> <<kid.ref>> \o rest
                        [] ty = "Pages" /\ fuel > 0 ->
                              PageIter(doc, KidsOf(doc, kid.ref), fuel - 1) \o rest
                        [] OTHER -> rest

get_pages(doc) ==
    IF PagesRefOk(doc)
    THEN PageIter(doc, KidsOf(doc, PagesId(doc)), Cardinality(DOMAIN doc.objects))
    ELSE <<>>

\* update_references with the Object::Stream arm forgotten
RECURSIVE update_references_without_streams(_, _)
update_references_without_streams(obj, id_map) ==
    CASE obj.t = "Reference" ->
            IF obj.ref \in DOMAIN id_map THEN Reference(id_map[obj.ref]) ELSE obj
      [] obj.t = "Array" ->
            Array([i \in DOMAIN obj.arr |->
                      update_references_without_streams(obj.arr[i], id_map)])
      [] obj.t = "Dictionary" ->
            Dictionary([k \in DOMAIN obj.dict |->
                           update_references_without_streams(obj.dict[k], id_map)])
      [] OTHER -> obj

(***************************************************************************)
(* update_references: rewrite every Reference inside obj that is a key of  *)
(* id_map, through arrays, dictionaries and stream dictionaries.           *)
(***************************************************************************)
RECURSIVE update_references(_, _)
update_references(obj, id_map) ==
    CASE obj.t = "Reference" ->
            IF obj.ref \in DOMAIN id_map THEN Reference(id_map[obj.ref]) ELSE obj
      [] obj.t = "Array" ->
            Array([i \in DOMAIN obj.arr |-> update_references(obj.arr[i], id_map)])
      [] obj.t = "Dictionary" ->
            Dictionary([k \in DOMAIN obj.dict |-> update_references(obj.dict[k], id_map)])
      [] obj.t = "Stream" ->
            Stream([k \in DOMAIN obj.dict |-> update_references(obj.dict[k], id_map)],
                   obj.content)
      [] OTHER -> obj

(***************************************************************************)
(* The files on disk before a command runs.  A file is a PDF (the Document *)
(* that Document::load yields for it, and who serialised its bytes), an    *)
(* image (its pixel dimensions), a file that is no valid document, or      *)
(* absent.                                                                 *)
(***************************************************************************)
Pdf(d, by) == [kind |-> "pdf", doc |-> d, writer |-> by]
Image(w, h) == [kind |-> "image", width |-> w, height |-> h]

NoEntries == [k \in {} |-> Null]

Doc(objs, max, root) == [objects |-> objs, max_id |-> max, trailer |-> [Root |-> R(root)]]

PageNode(parent, contents) ==
    Dictionary([Type |-> Name("Page"), Parent |-> parent, Contents |-> contents])

PagesNode(kids, count) ==
    Dictionary([Type |-> Name("Pages"), Kids |-> Array(kids), Count |-> Integer(count)])

InnerPagesNode(parent, kids, count) ==
    Dictionary([Type |-> Name("Pages"), Parent |-> parent, Kids |-> Array(kids),
                Count |-> Integer(count)])

CatalogNode(pages) == Dictionary([Type |-> Name("Catalog"), Pages |-> pages])

\* a.pdf: a flat page tree of two pages, object numbers 1..6, max_id = 6
DocA ==
    Doc(   (<<1, 0>> :> CatalogNode(R(2)))
        @@ (<<2, 0>> :> PagesNode(<<R(3), R(4)>>, 2))
        @@ (<<3, 0>> :> PageNode(R(2), R(5)))
        @@ (<<4, 0>> :> PageNode(R(2), R(6)))
        @@ (<<5, 0>> :> Stream(NoEntries, "a1"))
        @@ (<<6, 0>> :> Stream(NoEntries, "a2")),
        6, 1)

\* b.pdf: a nested page tree of four pages, sparse object numbers, one id of
\* generation 1, a reference inside a stream dictionary, max_id above every id
DocB ==
    Doc(   (<<1, 0>> :> CatalogNode(R(2)))
        @@ (<<2, 0>> :> PagesNode(<<R(4), R(7), R(8)>>, 4))
        @@ (<<4, 0>> :> InnerPagesNode(R(2), <<R(5), R(6)>>, 2))
        @@ (<<5, 0>> :> PageNode(R(4), R(20)))
        @@ (<<6, 0>> :> PageNode(R(4), Reference(<<21, 1>>)))
        @@ (<<7, 0>> :> PageNode(R(2), R(22)))
        @@ (<<8, 0>> :> PageNode(R(2), R(24)))
        @@ (<<20, 0>> :> Stream([Length |-> R(23)], "b1"))
        @@ (<<21, 1>> :> Stream(NoEntries, "b2"))
        @@ (<<22, 0>> :> Stream(NoEntries, "b3"))
        @@ (<<23, 0>> :> Integer(2))
        @@ (<<24, 0>> :> Stream(NoEntries, "b4")),
        25, 1)

\* c.pdf: a single page
DocC ==
    Doc(   (<<1, 0>> :> CatalogNode(R(2)))
        @@ (<<2, 0>> :> PagesNode(<<R(3)>>, 1))
        @@ (<<3, 0>> :> PageNode(R(2), R(4)))
        @@ (<<4, 0>> :> Stream(NoEntries, "c1")),
        4, 1)

\* w.pdf: two pages with inline Annots arrays; annotation 10 matches the Subtype
\* and the Annot rule, 12 the Name and the Subtype rule, the form 13 is a stream
\* named "WM" that page 3 also uses as a resource; 11, 14..17 match no rule
DocW ==
    Doc(   (<<1, 0>> :> CatalogNode(R(2)))
        @@ (<<2, 0>> :> PagesNode(<<R(3), R(4)>>, 2))
        @@ (<<3, 0>> :> Dictionary([Type |-> Name("Page"), Parent |-> R(2),
                                    Contents |-> R(5),
                                    Annots |-> Array(<<R(10), R(11),
                                                       Dictionary([Subtype |-> Name("Link")]),
                                                       R(12), R(10)>>),
                                    Resources |-> Dictionary(
                                        [XObject |-> Dictionary([Fm0 |-> R(13)])])]))
        @@ (<<4, 0>> :> Dictionary([Type |-> Name("Page"), Parent |-> R(2),
                                    Contents |-> R(6),
                                    Annots |-> Array(<<R(11), Integer(0)>>)]))
        @@ (<<5, 0>> :> Stream(NoEntries, "w1"))
        @@ (<<6, 0>> :> Stream(NoEntries, "w2"))
        @@ (<<10, 0>> :> Dictionary([Type |-> Name("Annot"), Subtype |-> Name("Watermark")]))
        @@ (<<11, 0>> :> Dictionary([Type |-> Name("Annot"), Subtype |-> Name("Link")]))
        @@ (<<12, 0>> :> Dictionary([Subtype |-> Name("Watermark"), Name |-> Name("DRAFT")]))
        @@ (<<13, 0>> :> Stream([Name |-> Name("WM")], "stamp"))
        @@ (<<14, 0>> :> Stream([Name |-> Name("Im1"), Subtype |-> Name("Image")], "img"))
        @@ (<<15, 0>> :> Dictionary([Name |-> Name("draft")]))
        @@ (<<16, 0>> :> Dictionary([Name |-> String("Watermark")]))
        @@ (<<17, 0>> :> Stream([Subtype |-> Name("Watermark")], "raw")),
        17, 1)

\* w1.pdf: c.pdf and one object named Watermark1 that no Annots array refers to
DocW1 ==
    [DocC EXCEPT !.objects = @ @@ (<<5, 0>> :> Dictionary([Name |-> Name("Watermark1")])),
                 !.max_id = 5]

\* w2.pdf: c.pdf and one watermark annotation that no Annots array refers to
DocW2 ==
    [DocC EXCEPT !.objects = @ @@ (<<5, 0>> :> Dictionary([Type |-> Name("Annot"),
                                                           Subtype |-> Name("Watermark")])),
                 !.max_id = 5]

\* d.pdf: one page; a reference to no object (9 0), references two arrays deep
\* and inside a stream dictionary
DocD ==
    Doc(   (<<1, 0>> :> CatalogNode(R(2)))
        @@ (<<2, 0>> :> PagesNode(<<R(3)>>, 1))
        @@ (<<3, 0>> :> Dictionary([Type |-> Name("Page"), Parent |-> R(2),
                                    Contents |-> R(4),
                                    Annots |-> Array(<<R(9),
                                                       Array(<<R(3), Integer(1)>>)>>)]))
        @@ (<<4, 0>> :> Stream([Length |-> R(9), Filter |-> Array(<<R(1)>>)], "d1")),
        4, 1)

\* k.pdf: one page; the Kids entry of the root Pages node is a reference to an array
DocK ==
    Doc(   (<<1, 0>> :> CatalogNode(R(2)))
        @@ (<<2, 0>> :> Dictionary([Type |-> Name("Pages"), Kids |-> R(5),
                                    Count |-> Integer(1)]))
        @@ (<<3, 0>> :> PageNode(R(2), R(4)))
        @@ (<<4, 0>> :> Stream(NoEntries, "k1"))
        @@ (<<5, 0>> :> Array(<<R(3)>>)),
        5, 1)

\* n.pdf: one page; the Count entry of the root Pages node is a reference to an integer
DocN ==
    Doc(   (<<1, 0>> :> CatalogNode(R(2)))
        @@ (<<2, 0>> :> Dictionary([Type |-> Name("Pages"), Kids |-> Array(<<R(3)>>),
                                    Count |-> R(5)]))
        @@ (<<3, 0>> :> PageNode(R(2), R(4)))
        @@ (<<4, 0>> :> Stream(NoEntries, "n1"))
        @@ (<<5, 0>> :> Integer(1)),
        5, 1)

\* p.pdf: the Pages entry of the Catalog refers to an object that is no dictionary
DocP ==
    Doc(   (<<1, 0>> :> CatalogNode(R(2)))
        @@ (<<2, 0>> :> Array(<<R(3)>>))
        @@ (<<3, 0>> :> PageNode(R(2), R(4)))
        @@ (<<4, 0>> :> Stream(NoEntries, "p1")),
        4, 1)

\* x.pdf: the Catalog has no Pages entry
DocX ==
    Doc(   (<<1, 0>> :> Dictionary([Type |-> Name("Catalog")]))
        @@ (<<2, 0>> :> PagesNode(<<R(3)>>, 1))
        @@ (<<3, 0>> :> PageNode(R(2), R(4)))
        @@ (<<4, 0>> :> Stream(NoEntries, "x1")),
        4, 1)

\* the c.pdf family with an Info entry in the trailer: a reference to a dictionary
\* of two strings (i1), an inline dictionary (i2), a reference to no object (i3),
\* a reference to a stream (i4), a dictionary whose Title is a Name and which
\* has no Author (i5), a Title that is not valid UTF-8 (i6)
DocI1 ==
    [DocC EXCEPT !.trailer = [Root |-> R(1), Info |-> R(5)],
                 !.objects = @ @@ (<<5, 0>> :> Dictionary([Title |-> String("T"),
                                                           Author |-> String("A")])),
                 !.max_id = 5]

DocI2 ==
    [DocC EXCEPT !.trailer = [Root |-> R(1),
                              Info |-> Dictionary([Title |-> String("T"),
                                                   Author |-> String("A")])]]

DocI3 == [DocC EXCEPT !.trailer = [Root |-> R(1), Info |-> R(9)]]

DocI4 == [DocC EXCEPT !.trailer = [Root |-> R(1), Info |-> R(4)]]

DocI5 ==
    [DocC EXCEPT !.trailer = [Root |-> R(1), Info |-> R(5)],
                 !.objects = @ @@ (<<5, 0>> :> Dictionary([Title |-> Name("T"),
                                                           Producer |-> String("P")])),
                 !.max_id = 5]

DocI6 ==
    [DocC EXCEPT !.trailer = [Root |-> R(1), Info |-> R(5)],
                 !.objects = @ @@ (<<5, 0>> :> Dictionary([Title |-> String("T\\xFF"),
                                                           Author |-> Integer(7)])),
                 !.max_id = 5]

PdfPaths == {"a.pdf", "b.pdf", "c.pdf", "junk.pdf", "missing.pdf"}
ImagePaths == {"small.png", "wide.png", "hd.png", "junk.png", "missing.png"}
WatermarkPaths == {"a.pdf", "w.pdf", "w1.pdf", "w2.pdf", "junk.pdf", "missing.pdf"}
MalformedPaths == {"a.pdf", "d.pdf", "k.pdf", "n.pdf", "p.pdf", "x.pdf"}
InfoPaths == {"b.pdf", "c.pdf", "i1.pdf", "i2.pdf", "i3.pdf", "i4.pdf", "i5.pdf", "i6.pdf",
              "junk.pdf", "missing.pdf"}
OutPath == "out.pdf"
\* the output path of each of two concurrent invocations
OutputPath(p) == IF p = 1 THEN "out1.pdf" ELSE "out2.pdf"

Paths ==
    PdfPaths \cup ImagePaths \cup WatermarkPaths \cup InfoPaths \cup MalformedPaths
        \cup {OutPath, "out1.pdf", "out2.pdf"}

Disk0 ==
    [p \in Paths |->
        CASE p = "a.pdf" -> Pdf(DocA, "orig")
          [] p = "b.pdf" -> Pdf(DocB, "orig")
          [] p = "c.pdf" -> Pdf(DocC, "orig")
          [] p = "w.pdf" -> Pdf(DocW, "orig")
          [] p = "w1.pdf" -> Pdf(DocW1, "orig")
          [] p = "w2.pdf" -> Pdf(DocW2, "orig")
          [] p = "d.pdf" -> Pdf(DocD, "orig")
          [] p = "k.pdf" -> Pdf(DocK, "orig")
          [] p = "n.pdf" -> Pdf(DocN, "orig")
          [] p = "p.pdf" -> Pdf(DocP, "orig")
          [] p = "x.pdf" -> Pdf(DocX, "orig")
          [] p = "i1.pdf" -> Pdf(DocI1, "orig")
          [] p = "i2.pdf" -> Pdf(DocI2, "orig")
          [] p = "i3.pdf" -> Pdf(DocI3, "orig")
          [] p = "i4.pdf" -> Pdf(DocI4, "orig")
          [] p = "i5.pdf" -> Pdf(DocI5, "orig")
          [] p = "i6.pdf" -> Pdf(DocI6, "orig")
          [] p = "junk.pdf" -> Junk
          [] p = "small.png" -> Image(2, 3)
          [] p = "wide.png" -> Image(4000, 1000)
          [] p = "hd.png" -> Image(1080, 720)
          [] p = "junk.png" -> Junk
          [] OTHER -> NoFile]

\* every sequence over S of length at most n
SeqsUpTo(S, n) == UNION {[1..k -> S] : k \in 0..n}

(***************************************************************************)
(* merge_pdfs, one source: the body of the loop at pdf.rs:68-121.          *)
(***************************************************************************)
MapInsert(f, k, v) == [x \in DOMAIN f \cup {k} |-> IF x = k THEN v ELSE f[x]]

\* the copy loop with new_id taken before max_id is incremented
RECURSIVE CopyLoopIdBeforeIncrement(_, _, _)
CopyLoopIdBeforeIncrement(ids, doc, st) ==
    IF ids = <<>> THEN st
    ELSE LET old_id == Head(ids)
             new_id == <<st.max_id, 0>>
         IN  Let([objects |-> MapInsert(st.objects, new_id, doc.objects[old_id]),
                  max_id |-> st.max_id + 1,
                  id_map |-> MapInsert(st.id_map, old_id, new_id)],
                 LAMBDA next : CopyLoopIdBeforeIncrement(Tail(ids), doc, next))

\* pdf.rs:79-84: every (old_id, object) of the source, in BTreeMap order, gets
\* new_id = (max_id + 1, 0); st is [objects, max_id, id_map]
RECURSIVE CopyLoop(_, _, _)
CopyLoop(ids, doc, st) ==
    IF ids = <<>> THEN st
    ELSE LET old_id == Head(ids)
             max_id == st.max_id + 1
             new_id == <<max_id, 0>>
         IN  Let([objects |-> MapInsert(st.objects, new_id, doc.objects[old_id]),
                  max_id |-> max_id,
                  id_map |-> MapInsert(st.id_map, old_id, new_id)],
                 LAMBDA next : CopyLoop(Tail(ids), doc, next))

\* pdf.rs:73-84
CopyObjects(base, doc) ==
    Let(SortedIds(DOMAIN doc.objects), LAMBDA ids :
        CopyLoop(ids, doc,
                 [objects |-> base.objects, max_id |-> base.max_id, id_map |-> EmptyMap]))

\* update_references on every object of the base
RewriteEveryObject(objects, id_map) ==
    [id \in DOMAIN objects |-> update_references(objects[id], id_map)]

\* pdf.rs:87-91: update_references on every object stored under a new id
RewriteCopied(objects, id_map) ==
    [id \in DOMAIN objects |->
        IF id \in Range(id_map) THEN update_references(objects[id], id_map)
        ELSE objects[id]]

\* the new page put first instead of last
KidsPushFront(kids_array, new_page_id) == <<Reference(new_page_id)>> \o kids_array

\* pdf.rs:107
KidsPush(kids_array, new_page_id) == Append(kids_array, Reference(new_page_id))

\* pdf.rs:102-116: the root Pages dictionary after one page is spliced in
SpliceIntoPagesDict(pages_dict, new_page_id) ==
    LET withKid ==
            IF Has(pages_dict, "Kids") /\ pages_dict["Kids"].t = "Array"
            THEN [pages_dict EXCEPT !["Kids"] = Array(KidsPush(@.arr, new_page_id))]
            ELSE pages_dict
    IN  IF Has(withKid, "Count") /\ withKid["Count"].t = "Integer"
        THEN [withKid EXCEPT !["Count"] = Integer(@.int + 1)]
        ELSE withKid

\* pdf.rs:96-117, one source page; base is [ok, doc] and an error stops the loop
SplicePage(base, page_id, id_map) ==
    IF ~base.ok \/ page_id \notin DOMAIN id_map THEN base
    ELSE IF ~PagesRefOk(base.doc) THEN [ok |-> FALSE, doc |-> base.doc]
    ELSE LET pages_id == PagesId(base.doc)
         IN  IF IsDictAt(base.doc, pages_id)
             THEN [ok |-> TRUE,
                   doc |-> [base.doc EXCEPT !.objects[pages_id] =
                              Dictionary(SpliceIntoPagesDict(@.dict, id_map[page_id]))]]
             ELSE base

\* pdf.rs:94-118
RECURSIVE SplicePages(_, _, _)
SplicePages(base, src_pages, id_map) ==
    IF src_pages = <<>> THEN base
    ELSE Let(SplicePage(base, Head(src_pages), id_map),
             LAMBDA next : SplicePages(next, Tail(src_pages), id_map))

\* the running max_id never written back to the base
PersistMaxIdForgotten(base, max_id) == base

\* pdf.rs:120
PersistMaxId(base, max_id) == [base EXCEPT !.max_id = max_id]

\* what the fold leaves in its four locals, given how it leaves the source
FoldWith(base, doc, source_after) ==
    Let(CopyObjects(base, doc), LAMBDA copied :
    Let([base EXCEPT !.objects = RewriteCopied(copied.objects, copied.id_map)],
        LAMBDA rewritten :
    Let(SplicePages([ok |-> TRUE, doc |-> rewritten], get_pages(doc), copied.id_map),
        LAMBDA spliced :
        [ok |-> spliced.ok,
         base_doc |-> IF spliced.ok THEN PersistMaxId(spliced.doc, copied.max_id)
                      ELSE spliced.doc,
         doc |-> source_after,
         id_map |-> copied.id_map])))

\* the fold with the references rewritten in the source as well as in the copies
MergeSourceRewritingSource(base, doc) ==
    FoldWith(base, doc,
             [doc EXCEPT !.objects = [id \in DOMAIN doc.objects |->
                 update_references(doc.objects[id], CopyObjects(base, doc).id_map)]])

\* pdf.rs:72-120: fold one loaded source into the base.  The source is only read.
MergeSource(base, doc) == FoldWith(base, doc, doc)

(***************************************************************************)
(* lopdf Document::delete_object(id) and Document::delete_pages(&[n]), as  *)
(* called from delete_pages at pdf.rs:439.                                 *)
(***************************************************************************)
RECURSIVE RemoveFirst(_, _)
RemoveFirst(s, x) ==
    IF s = <<>> THEN <<>>
    ELSE IF Head(s) = x THEN Tail(s)
    ELSE <<Head(s)>> \o RemoveFirst(Tail(s), x)

\* delete_object's action on one object: an array loses its first Reference to
\* id, a dictionary every entry whose value is a Reference to id
DeleteAction(obj, id) ==
    CASE obj.t = "Array" -> Array(RemoveFirst(obj.arr, Reference(id)))
      [] obj.t = "Dictionary" ->
            Dictionary([k \in {x \in DOMAIN obj.dict : obj.dict[x] # Reference(id)}
                           |-> obj.dict[k]])
      [] OTHER -> obj

\* traverse_object: the action on the object, then on what it contains
RECURSIVE TraverseObject(_, _)
TraverseObject(obj, id) ==
    Let(DeleteAction(obj, id), LAMBDA o :
        CASE o.t = "Array" -> Array([i \in DOMAIN o.arr |-> TraverseObject(o.arr[i], id)])
          [] o.t = "Dictionary" ->
                Dictionary([k \in DOMAIN o.dict |-> TraverseObject(o.dict[k], id)])
          [] o.t = "Stream" ->
                Stream([k \in DOMAIN o.dict |-> TraverseObject(o.dict[k], id)], o.content)
          [] OTHER -> o)

\* the ids of the References inside an object, at any depth
RECURSIVE RefsIn(_)
RefsIn(obj) ==
    CASE obj.t = "Reference" -> {obj.ref}
      [] obj.t = "Array" -> UNION {RefsIn(obj.arr[i]) : i \in DOMAIN obj.arr}
      [] obj.t \in {"Dictionary", "Stream"} ->
            UNION {RefsIn(obj.dict[k]) : k \in DOMAIN obj.dict}
      [] OTHER -> {}

\* traverse_objects: the ids it visits, following References from the trailer
\* through the objects as the action leaves them
RECURSIVE Visited(_, _, _)
Visited(objects, seen, id) ==
    Let(seen \cup UNION {RefsIn(TraverseObject(objects[o], id)) :
                            o \in seen \cap DOMAIN objects},
        LAMBDA more : IF more = seen THEN seen ELSE Visited(objects, more, id))

\* Document::delete_object(id): rewrite what the traversal visits, then remove id
delete_object(d, id) ==
    Let([k \in DOMAIN d.trailer |-> TraverseObject(d.trailer[k], id)], LAMBDA trailer :
    Let(RefsIn(Dictionary(trailer)), LAMBDA roots :
    Let(Visited(d.objects, roots, id), LAMBDA seen :
        [d EXCEPT
            !.trailer = trailer,
            !.objects = [o \in DOMAIN d.objects \ {id} |->
                            IF o \in seen THEN TraverseObject(d.objects[o], id)
                            ELSE d.objects[o]]])))

\* the loop of Document::delete_pages that walks Parent upwards from the
\* deleted page and decrements each Count it finds
RECURSIVE DecrementCounts(_, _, _)
DecrementCounts(objects, dict, fuel) ==
    IF fuel = 0 \/ ~HasRef(dict, "Parent") THEN objects
    ELSE LET page_tree_id == dict["Parent"].ref
         IN  IF page_tree_id \in DOMAIN objects /\ objects[page_tree_id].t = "Dictionary"
             THEN LET page_tree == objects[page_tree_id].dict
                      counted ==
                          IF Has(page_tree, "Count") /\ page_tree["Count"].t = "Integer"
                          THEN [page_tree EXCEPT !["Count"] = Integer(@.int - 1)]
                          ELSE page_tree
                  IN  Let([objects EXCEPT ![page_tree_id] = Dictionary(counted)],
                          LAMBDA decremented :
                              DecrementCounts(decremented,
                                              decremented[page_tree_id].dict, fuel - 1))
             ELSE objects

\* Document::delete_pages(&[page_number])
lopdf_delete_pages(d, page_number) ==
    Let(get_pages(d), LAMBDA pages :
        IF page_number \in DOMAIN pages /\ HasObject(d, pages[page_number])
        THEN LET page == d.objects[pages[page_number]]
             IN  Let(delete_object(d, pages[page_number]), LAMBDA removed :
                     IF page.t = "Dictionary"
                     THEN [removed EXCEPT !.objects =
                              DecrementCounts(@, page.dict, Cardinality(DOMAIN d.objects))]
                     ELSE removed)
        ELSE d)

(***************************************************************************)
(* delete_pages: validation (pdf.rs:417-432) and the descending sort       *)
(* (pdf.rs:435-436).                                                       *)
(***************************************************************************)
\* the upper bound off by one
InvalidPageOffByOne(page, total_pages) == page = 0 \/ page >= total_pages

\* pdf.rs:421
InvalidPage(page, total_pages) == page = 0 \/ page > total_pages

\* the all-pages check with > for >=
DeletesAllPagesOffByOne(pages, total_pages) == Len(pages) > total_pages

\* pdf.rs:430
DeletesAllPages(pages, total_pages) == Len(pages) >= total_pages

SeqMax(s) == CHOOSE m \in Range(s) : \A x \in Range(s) : x <= m

\* pdf.rs:436: sort_by(|a, b| b.cmp(a))
RECURSIVE SortDescending(_)
SortDescending(s) ==
    IF s = <<>> THEN <<>>
    ELSE <<SeqMax(s)>> \o SortDescending(RemoveFirst(s, SeqMax(s)))

(***************************************************************************)
(* images_to_pdf: the page size of one image (pdf.rs:179-195), in f32.     *)
(* A positive normal f32 is <<m, e>> with 2^23 <= m < 2^24, its value      *)
(* m * 2^e; every operation rounds to nearest, ties to even.  Products are *)
(* taken in 12-bit halves so that no intermediate exceeds 31 bits.         *)
(***************************************************************************)
max_width_mm == 210
max_height_mm == 297
dpi == 96

RECURSIVE F32Normal(_, _)
F32Normal(m, e) == IF m >= 2^23 THEN <<m, e>> ELSE F32Normal(2 * m, e - 1)

\* n as f32, exact for 0 < n < 2^24
F32FromInt(n) == F32Normal(n, 0)

\* pdf.rs:187: the literal 25.4 as f32, 0x41CB3333
MmPerInch == <<13316915, 0 - 19>>

\* q with the discarded part rem against half a unit in the last place
F32Round(q, e, rem, half) ==
    LET up == rem > half \/ (rem = half /\ q % 2 = 1)
    IN  IF ~up THEN <<q, e>>
        ELSE IF q + 1 = 2^24 THEN <<2^23, e + 1>>
        ELSE <<q + 1, e>>

F32Mul(a, b) ==
    LET ah == a[1] \div 2^12
        al == a[1] % 2^12
        bh == b[1] \div 2^12
        bl == b[1] % 2^12
        mid == ah * bl + al * bh
        low == al * bl + (mid % 2^12) * 2^12
        L == low % 2^24
        H == ah * bh + mid \div 2^12 + low \div 2^24
    IN  IF H >= 2^23
        THEN F32Round(H, a[2] + b[2] + 24, L, 2^23)
        ELSE F32Round(2 * H + L \div 2^23, a[2] + b[2] + 23, L % 2^23, 2^22)

\* n more bits of the quotient r / d, r < 2 * d: <<quotient, twice the remainder>>
RECURSIVE DivBits(_, _, _, _)
DivBits(q, r, d, n) ==
    IF n = 0 THEN <<q, r>>
    ELSE IF r >= d THEN DivBits(2 * q + 1, 2 * (r - d), d, n - 1)
    ELSE DivBits(2 * q, 2 * r, d, n - 1)

F32Div(a, b) ==
    LET ge == a[1] >= b[1]
        qr == DivBits(0, IF ge THEN a[1] ELSE 2 * a[1], b[1], 24)
    IN  F32Round(qr[1], a[2] - b[2] - (IF ge THEN 23 ELSE 24), qr[2], b[1])

F32Less(a, b) == a[2] < b[2] \/ (a[2] = b[2] /\ a[1] < b[1])

\* f32::min
F32Min(a, b) == IF F32Less(b, a) THEN b ELSE a

\* pdf.rs:187-188: (pixels as f32 / dpi) * 25.4
PixelsToMm(px) ==
    Let(F32Div(F32FromInt(px), F32FromInt(dpi)), LAMBDA inches : F32Mul(inches, MmPerInch))

\* pdf.rs:191-193
Scale(img_width, img_height) ==
    Let(PixelsToMm(img_width), LAMBDA img_width_mm :
    Let(PixelsToMm(img_height), LAMBDA img_height_mm :
    Let(F32Div(F32FromInt(max_width_mm), img_width_mm), LAMBDA by_width :
    Let(F32Div(F32FromInt(max_height_mm), img_height_mm), LAMBDA by_height :
        F32Min(F32Min(by_width, by_height), F32FromInt(1))))))

\* pdf.rs:194-218: the page made for one decoded image
ImagePage(path, img) ==
    Let(PixelsToMm(img.width), LAMBDA img_width_mm :
    Let(PixelsToMm(img.height), LAMBDA img_height_mm :
    Let(Scale(img.width, img.height), LAMBDA scale :
        [image |-> path,
         scale |-> scale,
         width_mm |-> F32Mul(img_width_mm, scale),
         height_mm |-> F32Mul(img_height_mm, scale)])))

\* the page put in front of the others
PushPageInFront(pages, page) == <<page>> \o pages

\* pdf.rs:220: doc.pages.push(page)
PushPage(pages, page) == Append(pages, page)

(***************************************************************************)
(* get_pdf_info(path)                                                      *)
(***************************************************************************)
None == [some |-> FALSE]
Some(v) == [some |-> TRUE, value |-> v]

\* String::from_utf8_lossy: bytes that are no UTF-8 become U+FFFD
Utf8Lossy(bytes) == IF bytes = "T\\xFF" THEN "T\\uFFFD" ELSE bytes

\* the lookup that also reads an Info dictionary written inline in the trailer
InfoFieldInlineToo(d, key) ==
    IF ~Has(d.trailer, "Info") THEN None
    ELSE LET info_dict == d.trailer["Info"]
             dict == IF info_dict.t = "Reference" /\ IsDictAt(d, info_dict.ref)
                     THEN d.objects[info_dict.ref].dict
                     ELSE IF info_dict.t = "Dictionary" THEN info_dict.dict
                     ELSE NoEntries
         IN  IF Has(dict, key) /\ dict[key].t = "String"
             THEN Some(Utf8Lossy(dict[key].str))
             ELSE None

\* pdf.rs:23-40: the Title or the Author, None unless every step of the lookup is Ok
InfoField(d, key) ==
    IF ~Has(d.trailer, "Info") THEN None
    ELSE LET info_dict == d.trailer["Info"]
         IN  IF info_dict.t # "Reference" THEN None
             ELSE IF ~HasObject(d, info_dict.ref) THEN None
             ELSE LET info_obj == d.objects[info_dict.ref]
                  IN  IF info_obj.t # "Dictionary" THEN None
                      ELSE IF ~Has(info_obj.dict, key) THEN None
                      ELSE IF info_obj.dict[key].t # "String" THEN None
                      ELSE Some(Utf8Lossy(info_obj.dict[key].str))

\* pdf.rs:42-47
PdfInfo(path, d) ==
    [ok |-> TRUE, path |-> path, pages |-> Len(get_pages(d)),
     title |-> InfoField(d, "Title"), author |-> InfoField(d, "Author")]

(***************************************************************************)
(* remove_watermark(input_path, output_path)                               *)
(***************************************************************************)
\* the bytes of a name: of each indicator and of each Name entry of the documents
Bytes(s) ==
    CASE s = "Watermark" -> <<"W", "a", "t", "e", "r", "m", "a", "r", "k">>
      [] s = "watermark" -> <<"w", "a", "t", "e", "r", "m", "a", "r", "k">>
      [] s = "WATERMARK" -> <<"W", "A", "T", "E", "R", "M", "A", "R", "K">>
      [] s = "WM" -> <<"W", "M">>
      [] s = "wm" -> <<"w", "m">>
      [] s = "Overlay" -> <<"O", "v", "e", "r", "l", "a", "y">>
      [] s = "overlay" -> <<"o", "v", "e", "r", "l", "a", "y">>
      [] s = "Background" -> <<"B", "a", "c", "k", "g", "r", "o", "u", "n", "d">>
      [] s = "Draft" -> <<"D", "r", "a", "f", "t">>
      [] s = "DRAFT" -> <<"D", "R", "A", "F", "T">>
      [] s = "Confidential" -> <<"C", "o", "n", "f", "i", "d", "e", "n", "t", "i", "a", "l">>
      [] s = "CONFIDENTIAL" -> <<"C", "O", "N", "F", "I", "D", "E", "N", "T", "I", "A", "L">>
      [] s = "Sample" -> <<"S", "a", "m", "p", "l", "e">>
      [] s = "SAMPLE" -> <<"S", "A", "M", "P", "L", "E">>
      [] s = "Copy" -> <<"C", "o", "p", "y">>
      [] s = "COPY" -> <<"C", "O", "P", "Y">>
      [] s = "Watermark1" -> <<"W", "a", "t", "e", "r", "m", "a", "r", "k", "1">>
      [] s = "Im1" -> <<"I", "m", "1">>
      [] s = "draft" -> <<"d", "r", "a", "f", "t">>

\* pdf.rs:248-265
watermark_indicators ==
    <<"Watermark",
      "watermark",
      "WATERMARK",
      "WM",
      "wm",
      "Overlay",
      "overlay",
      "Background",
      "Draft",
      "DRAFT",
      "Confidential",
      "CONFIDENTIAL",
      "Sample",
      "SAMPLE",
      "Copy",
      "COPY">>

\* slice::windows(size): every contiguous run of size bytes
Windows(n, size) == {SubSeq(n, i, i + size - 1) : i \in 1..(Len(n) - size + 1)}

\* pdf.rs:276-281: some indicator is a window of n
ContainsIndicator(n) ==
    \E k \in DOMAIN watermark_indicators :
        Bytes(watermark_indicators[k])
            \in Windows(Bytes(n), Len(Bytes(watermark_indicators[k])))

\* pdf.rs:274-283, 312-321: the Name entry is an Object::Name holding an indicator
NamedLikeWatermark(d) ==
    Has(d, "Name") /\ d["Name"].t = "Name" /\ ContainsIndicator(d["Name"].name)

\* pdf.rs:286-292
SubtypeIsWatermark(d) ==
    Has(d, "Subtype") /\ d["Subtype"].t = "Name" /\ d["Subtype"].name = "Watermark"

\* pdf.rs:295-307
IsWatermarkAnnot(d) ==
    Has(d, "Type") /\ d["Type"].t = "Name" /\ d["Type"].name = "Annot"
                   /\ SubtypeIsWatermark(d)

\* the scan with the check of streams left out
PushesOfDictionariesOnly(obj_id, obj) ==
    IF obj.t = "Dictionary"
    THEN (IF NamedLikeWatermark(obj.dict) THEN <<obj_id>> ELSE <<>>)
         \o (IF SubtypeIsWatermark(obj.dict) THEN <<obj_id>> ELSE <<>>)
         \o (IF IsWatermarkAnnot(obj.dict) THEN <<obj_id>> ELSE <<>>)
    ELSE <<>>

\* pdf.rs:272-322: what one iteration of the scan pushes, one push per check passed
Pushes(obj_id, obj) ==
    CASE obj.t = "Dictionary" ->
              (IF NamedLikeWatermark(obj.dict) THEN <<obj_id>> ELSE <<>>)
           \o (IF SubtypeIsWatermark(obj.dict) THEN <<obj_id>> ELSE <<>>)
           \o (IF IsWatermarkAnnot(obj.dict) THEN <<obj_id>> ELSE <<>>)
      [] obj.t = "Stream" ->
              IF NamedLikeWatermark(obj.dict) THEN <<obj_id>> ELSE <<>>
      [] OTHER -> <<>>

\* pdf.rs:271-323: the Vec the scan builds, in the order of the BTreeMap
RECURSIVE ScanIds(_, _)
ScanIds(d, ids) ==
    IF ids = <<>> THEN <<>>
    ELSE Pushes(Head(ids), d.objects[Head(ids)]) \o ScanIds(d, Tail(ids))

Scan(d) == ScanIds(d, SortedIds(DOMAIN d.objects))

\* only the first collected id removed
RemoveFirstObjectOnly(d, ids) ==
    [d EXCEPT !.objects = [id \in (DOMAIN @) \ (IF ids = <<>> THEN {} ELSE {Head(ids)})
                              |-> @[id]]]

\* pdf.rs:326-329: doc.objects.remove for each collected id
RemoveObjects(d, ids) ==
    [d EXCEPT !.objects = [id \in (DOMAIN @) \ Range(ids) |-> @[id]]]

\* pdf.rs:340-357: the references of one Annots array taken for watermarks
RECURSIVE WatermarkAnnots(_, _, _)
WatermarkAnnots(d, to_remove, annot_array) ==
    IF annot_array = <<>> THEN <<>>
    ELSE LET annot_ref == Head(annot_array)
             rest == WatermarkAnnots(d, to_remove, Tail(annot_array))
         IN  IF annot_ref.t # "Reference" THEN rest
             ELSE IF annot_ref.ref \in Range(to_remove) THEN <<annot_ref.ref>> \o rest
             ELSE IF IsDictAt(d, annot_ref.ref)
                     /\ SubtypeIsWatermark(d.objects[annot_ref.ref].dict)
                  THEN <<annot_ref.ref>> \o rest
             ELSE rest

\* the filter that lets only references through
KeepAnnotReferencesOnly(annot_ref, watermark_annots) ==
    IF annot_ref.t = "Reference"
    THEN annot_ref.ref \notin Range(watermark_annots)
    ELSE FALSE

\* pdf.rs:378-384
KeepAnnot(annot_ref, watermark_annots) ==
    IF annot_ref.t = "Reference"
    THEN annot_ref.ref \notin Range(watermark_annots)
    ELSE TRUE

\* pdf.rs:336-372: Some((annot_array, watermark_annots)) or None
AnnotsToProcess(d, to_remove, page_id) ==
    IF IsDictAt(d, page_id) /\ Has(d.objects[page_id].dict, "Annots")
                            /\ d.objects[page_id].dict["Annots"].t = "Array"
    THEN LET annot_array == d.objects[page_id].dict["Annots"].arr
             watermark_annots == WatermarkAnnots(d, to_remove, annot_array)
         IN  IF watermark_annots # <<>>
             THEN [some |-> TRUE, annot_array |-> annot_array,
                   watermark_annots |-> watermark_annots]
             ELSE [some |-> FALSE]
    ELSE [some |-> FALSE]

\* pdf.rs:376-391: page_dict.set(b"Annots", Object::Array(new_annots))
SetAnnots(d, page_id, annot_array, watermark_annots) ==
    LET Keep(annot_ref) == KeepAnnot(annot_ref, watermark_annots)
        new_annots == SelectSeq(annot_array, Keep)
    IN  [d EXCEPT !.objects[page_id].dict =
            [k \in DOMAIN @ \cup {"Annots"} |->
                IF k = "Annots" THEN Array(new_annots) ELSE @[k]]]

\* a result that always reports success
RemovalResultAlwaysSuccess(n) ==
    [ok |-> TRUE, success |-> TRUE, items_removed |-> n,
     message |-> IF n > 0 THEN <<"Found and removed", n>> ELSE <<"No obvious">>]

\* pdf.rs:399-409: the message is its variant and the number it prints
RemovalResult(n) ==
    [ok |-> TRUE, success |-> n > 0, items_removed |-> n,
     message |-> IF n > 0 THEN <<"Found and removed", n>> ELSE <<"No obvious">>]

(***************************************************************************)
(* State.                                                                  *)
(***************************************************************************)
\* the two concurrent invocations
Procs == {1, 2}

\* the locals of an invocation that has not started
Idle ==
    [pc |-> "idle", op |-> "none", input_paths |-> <<>>, pages_to_delete |-> <<>>,
     idx |-> 0, sorted_pages |-> <<>>, document |-> NoDoc, result |-> NoResult]

(***************************************************************************)
(* downloader/mod.rs: the DownloadManager.  jobs maps a job id to the job  *)
(* (its status, and the channel made by the add_job that inserted it),     *)
(* cancellation_tokens maps a job id to the Sender of a watch channel; a   *)
(* channel is its value and whether its Receiver is returned and alive.    *)
(***************************************************************************)
JobIds == {"job"}

Tasks == 1..MaxTasks

\* a task that has not called yet
IdleTask == [pc |-> "idle", op |-> "none", job_id |-> "", tx |-> 0, result |-> NoResult]

\* mod.rs:46-51: DownloadManager::new
NewManager ==
    [jobs |-> EmptyMap,
     cancellation_tokens |-> EmptyMap,
     channels |-> <<>>,
     tasks |-> [t \in Tasks |-> IdleTask]]

\* mod.rs:54: tokio::sync::watch::channel(false)
NewChannel == [value |-> FALSE, returned |-> FALSE, rx_alive |-> TRUE]

\* HashMap::remove
MapRemove(f, k) == [x \in DOMAIN f \ {k} |-> f[x]]

(***************************************************************************)
(* downloader/simple.rs: the files a call of SimpleDownloader may leave.   *)
(***************************************************************************)
\* output_path of the call
OutputFile == "video.mp4"
\* simple.rs:158-159
VideoTemp == ".video_video.m4s"
AudioTemp == ".video_audio.m4s"

\* no call yet: the cancel signal is false, no file exists, nothing was emitted
NewDownloader ==
    [pc |-> "idle", op |-> "none", cancel |-> FALSE, files |-> {}, events |-> {},
     chunks |-> 0, result |-> NoResult]

VARIABLES
    pc,               \* where the running command stands
    op,               \* the command: merge_pdfs, delete_pages, images_to_pdf
    disk,             \* path -> file
    reads,            \* the paths the command has opened for reading
    input_paths,      \* merge_pdfs / images_to_pdf: the input list
    idx,              \* the loop's position in the input list
    base_doc,         \* merge_pdfs: the accumulating base Document
    doc,              \* the Document loaded last (a merge source, delete_pages' doc)
    id_maps,          \* merge_pdfs: the id_map built for each source so far
    pages_to_delete,  \* delete_pages: the request
    sorted_pages,     \* delete_pages: the page numbers still to delete
    pdf_pages,        \* images_to_pdf: the pages pushed so far
    objects_to_remove,\* remove_watermark: the ids collected by the scan
    items_removed,    \* remove_watermark: the running count
    page_queue,       \* remove_watermark: the pages whose Annots are still to clean
    calls,            \* the commands that have returned so far
    inv,              \* the locals of each of two concurrent invocations
    manager,          \* the DownloadManager and the tasks that call it
    downloader,       \* a call of SimpleDownloader and the files and events it leaves
    result            \* what the command returned

\* the state of the commands of pdf.rs
pdf_vars == <<pc, op, disk, reads, input_paths, idx, base_doc, doc, id_maps,
              pages_to_delete, sorted_pages, pdf_pages, objects_to_remove, items_removed,
              page_queue, calls, inv, result>>

vars == <<pdf_vars, manager, downloader>>

Init ==
    /\ pc = "idle"
    /\ op = "none"
    /\ disk = Disk0
    /\ reads = {}
    /\ input_paths = <<>>
    /\ idx = 0
    /\ base_doc = NoDoc
    /\ doc = NoDoc
    /\ id_maps = <<>>
    /\ pages_to_delete = <<>>
    /\ sorted_pages = <<>>
    /\ pdf_pages = <<>>
    /\ objects_to_remove = <<>>
    /\ items_removed = 0
    /\ page_queue = <<>>
    /\ calls = 0
    /\ inv = [p \in Procs |-> Idle]
    /\ manager = NewManager
    /\ downloader = NewDownloader
    /\ result = NoResult

\* Document::load(path) is Ok
Loadable(path) == disk[path].kind = "pdf"

\* the one-input case sent through Document::load and save instead of a copy
CopyFileBySaving(d, from, to) ==
    [d EXCEPT ![to] = IF d[from].kind = "pdf" THEN Pdf(d[from].doc, "lopdf") ELSE d[from]]

\* pdf.rs:58: std::fs::copy(from, to), the bytes as they are
CopyFile(d, from, to) == [d EXCEPT ![to] = d[from]]

Return(r) == pc' = "done" /\ result' = r

(***************************************************************************)
(* merge_pdfs(input_paths, output_path)                                    *)
(***************************************************************************)
\* pdf.rs:52-65: the checks, the one-input copy, the load of the base
MergeCall(paths) ==
    /\ pc = "idle"
    /\ UNCHANGED <<objects_to_remove, items_removed, page_queue, calls, inv,
                   manager, downloader>>
    /\ op' = "merge_pdfs"
    /\ input_paths' = paths
    /\ UNCHANGED <<doc, id_maps, pages_to_delete, sorted_pages, pdf_pages>>
    /\ IF Len(paths) = 0
       THEN /\ Return(Err("No input files provided"))
            /\ UNCHANGED <<disk, reads, idx, base_doc>>
       ELSE IF Len(paths) = 1
       THEN /\ reads' = reads \cup {paths[1]}
            /\ UNCHANGED <<idx, base_doc>>
            /\ IF disk[paths[1]].kind = "none"
               THEN Return(Err("Failed to copy PDF")) /\ UNCHANGED disk
               ELSE Return(Ok) /\ disk' = CopyFile(disk, paths[1], OutPath)
       ELSE /\ reads' = reads \cup {paths[1]}
            /\ UNCHANGED disk
            /\ IF Loadable(paths[1])
               THEN /\ base_doc' = disk[paths[1]].doc
                    /\ idx' = 2
                    /\ pc' = "merge_loop"
                    /\ UNCHANGED result
               ELSE /\ Return(Err("Failed to load first PDF"))
                    /\ UNCHANGED <<idx, base_doc>>

\* pdf.rs:68-121: one iteration of the loop over the sources
MergeFold ==
    /\ pc = "merge_loop"
    /\ UNCHANGED <<objects_to_remove, items_removed, page_queue, calls, inv,
                   manager, downloader>>
    /\ idx <= Len(input_paths)
    /\ reads' = reads \cup {input_paths[idx]}
    /\ UNCHANGED <<op, disk, input_paths, pages_to_delete, sorted_pages, pdf_pages>>
    /\ IF Loadable(input_paths[idx])
       THEN LET m == MergeSource(base_doc, disk[input_paths[idx]].doc)
            IN  /\ base_doc' = m.base_doc
                /\ doc' = m.doc
                /\ id_maps' = Append(id_maps, m.id_map)
                /\ IF m.ok
                   THEN idx' = idx + 1 /\ UNCHANGED <<pc, result>>
                   ELSE Return(Err("catalog")) /\ UNCHANGED idx
       ELSE /\ Return(Err("Failed to load PDF"))
            /\ UNCHANGED <<idx, base_doc, doc, id_maps>>

\* pdf.rs:124-128
MergeSave ==
    /\ pc = "merge_loop"
    /\ UNCHANGED <<objects_to_remove, items_removed, page_queue, calls, inv,
                   manager, downloader>>
    /\ idx > Len(input_paths)
    /\ disk' = [disk EXCEPT ![OutPath] = Pdf(base_doc, "lopdf")]
    /\ Return(Ok)
    /\ UNCHANGED <<op, reads, input_paths, idx, base_doc, doc, id_maps,
                   pages_to_delete, sorted_pages, pdf_pages>>

(***************************************************************************)
(* delete_pages(input_path, output_path, pages_to_delete)                  *)
(***************************************************************************)
\* pdf.rs:414-436: load, validate, sort
DeleteCall(path, pages) ==
    /\ pc = "idle"
    /\ UNCHANGED <<objects_to_remove, items_removed, page_queue, calls, inv,
                   manager, downloader>>
    /\ op' = "delete_pages"
    /\ input_paths' = <<path>>
    /\ pages_to_delete' = pages
    /\ reads' = reads \cup {path}
    /\ UNCHANGED <<disk, idx, base_doc, id_maps, pdf_pages>>
    /\ IF ~Loadable(path)
       THEN Return(Err("Failed to load PDF")) /\ UNCHANGED <<doc, sorted_pages>>
       ELSE LET loaded == disk[path].doc
                total_pages == Len(get_pages(loaded))
            IN  /\ doc' = loaded
                /\ IF \E i \in DOMAIN pages : InvalidPage(pages[i], total_pages)
                   THEN Return(Err("Invalid page number")) /\ UNCHANGED sorted_pages
                   ELSE IF DeletesAllPages(pages, total_pages)
                   THEN Return(Err("Cannot delete all pages from PDF"))
                        /\ UNCHANGED sorted_pages
                   ELSE /\ sorted_pages' = SortDescending(pages)
                        /\ pc' = "delete_loop"
                        /\ UNCHANGED result

\* an iteration that leaves the page number in the queue
DeleteStepKeepingQueue ==
    /\ pc = "delete_loop"
    /\ UNCHANGED <<objects_to_remove, items_removed, page_queue, calls, inv,
                   manager, downloader>>
    /\ sorted_pages # <<>>
    /\ doc' = lopdf_delete_pages(doc, Head(sorted_pages))
    /\ UNCHANGED <<pc, op, disk, reads, input_paths, idx, base_doc, id_maps,
                   pages_to_delete, pdf_pages, result, sorted_pages>>

\* pdf.rs:438-440: one iteration
DeleteStep ==
    /\ pc = "delete_loop"
    /\ UNCHANGED <<objects_to_remove, items_removed, page_queue, calls, inv,
                   manager, downloader>>
    /\ sorted_pages # <<>>
    /\ doc' = lopdf_delete_pages(doc, Head(sorted_pages))
    /\ sorted_pages' = Tail(sorted_pages)
    /\ UNCHANGED <<pc, op, disk, reads, input_paths, idx, base_doc, id_maps,
                   pages_to_delete, pdf_pages, result>>

\* pdf.rs:443-446
DeleteSave ==
    /\ pc = "delete_loop"
    /\ UNCHANGED <<objects_to_remove, items_removed, page_queue, calls, inv,
                   manager, downloader>>
    /\ sorted_pages = <<>>
    /\ disk' = [disk EXCEPT ![OutPath] = Pdf(doc, "lopdf")]
    /\ Return(Ok)
    /\ UNCHANGED <<op, reads, input_paths, idx, base_doc, doc, id_maps,
                   pages_to_delete, sorted_pages, pdf_pages>>

(***************************************************************************)
(* images_to_pdf(image_paths, output_path)                                 *)
(***************************************************************************)
\* the empty check left out
NoImagesUnchecked(paths) == FALSE

\* pdf.rs:162-164
NoImages(paths) == Len(paths) = 0

\* pdf.rs:162-168
ImagesCall(paths) ==
    /\ pc = "idle"
    /\ UNCHANGED <<objects_to_remove, items_removed, page_queue, calls, inv,
                   manager, downloader>>
    /\ op' = "images_to_pdf"
    /\ input_paths' = paths
    /\ UNCHANGED <<disk, reads, base_doc, doc, id_maps, pages_to_delete, sorted_pages,
                   pdf_pages>>
    /\ IF NoImages(paths)
       THEN Return(Err("No image files provided")) /\ UNCHANGED idx
       ELSE pc' = "images_loop" /\ idx' = 1 /\ UNCHANGED result

\* pdf.rs:170-221: one image
ImagesStep ==
    /\ pc = "images_loop"
    /\ UNCHANGED <<objects_to_remove, items_removed, page_queue, calls, inv,
                   manager, downloader>>
    /\ idx <= Len(input_paths)
    /\ reads' = reads \cup {input_paths[idx]}
    /\ UNCHANGED <<op, disk, input_paths, base_doc, doc, id_maps, pages_to_delete,
                   sorted_pages>>
    /\ LET file == disk[input_paths[idx]]
       IN  CASE file.kind = "none" ->
                   Return(Err("Failed to read image")) /\ UNCHANGED <<idx, pdf_pages>>
             [] file.kind = "image" ->
                   /\ pdf_pages' = PushPage(pdf_pages, ImagePage(input_paths[idx], file))
                   /\ idx' = idx + 1
                   /\ UNCHANGED <<pc, result>>
             [] OTHER ->
                   Return(Err("Failed to decode image")) /\ UNCHANGED <<idx, pdf_pages>>

\* pdf.rs:224-228
ImagesSave ==
    /\ pc = "images_loop"
    /\ UNCHANGED <<objects_to_remove, items_removed, page_queue, calls, inv,
                   manager, downloader>>
    /\ idx > Len(input_paths)
    /\ disk' = [disk EXCEPT ![OutPath] = [kind |-> "pdf", pages |-> pdf_pages,
                                          writer |-> "printpdf"]]
    /\ Return(Ok)
    /\ UNCHANGED <<op, reads, input_paths, idx, base_doc, doc, id_maps,
                   pages_to_delete, sorted_pages, pdf_pages>>

(***************************************************************************)
(* remove_watermark(input_path, output_path)                               *)
(***************************************************************************)
\* pdf.rs:242-332: load, scan, remove, list the pages
WatermarkCall(path) ==
    /\ pc = "idle"
    /\ op' = "remove_watermark"
    /\ input_paths' = <<path>>
    /\ reads' = reads \cup {path}
    /\ UNCHANGED <<disk, idx, base_doc, id_maps, pages_to_delete, sorted_pages,
                   pdf_pages, calls, inv,
                   manager, downloader>>
    /\ IF ~Loadable(path)
       THEN /\ Return(Err("Failed to load PDF"))
            /\ UNCHANGED <<doc, objects_to_remove, items_removed, page_queue>>
       ELSE LET loaded == disk[path].doc
                collected == Scan(loaded)
                cleared == RemoveObjects(loaded, collected)
            IN  /\ objects_to_remove' = collected
                /\ doc' = cleared
                /\ items_removed' = Len(collected)
                /\ page_queue' = get_pages(cleared)
                /\ pc' = "watermark_pages"
                /\ UNCHANGED result

\* pdf.rs:334-393: one page
WatermarkPage ==
    /\ pc = "watermark_pages"
    /\ page_queue # <<>>
    /\ LET page_id == Head(page_queue)
           annots_to_process == AnnotsToProcess(doc, objects_to_remove, page_id)
       IN  IF annots_to_process.some
           THEN /\ doc' = SetAnnots(doc, page_id, annots_to_process.annot_array,
                                    annots_to_process.watermark_annots)
                /\ items_removed' = items_removed + Len(annots_to_process.watermark_annots)
           ELSE UNCHANGED <<doc, items_removed>>
    /\ page_queue' = Tail(page_queue)
    /\ UNCHANGED <<pc, op, disk, reads, input_paths, idx, base_doc, id_maps,
                   pages_to_delete, sorted_pages, pdf_pages, objects_to_remove,
                   calls, inv, manager, downloader, result>>

\* pdf.rs:396-409
WatermarkSave ==
    /\ pc = "watermark_pages"
    /\ page_queue = <<>>
    /\ disk' = [disk EXCEPT ![OutPath] = Pdf(doc, "lopdf")]
    /\ Return(RemovalResult(items_removed))
    /\ UNCHANGED <<op, reads, input_paths, idx, base_doc, doc, id_maps,
                   pages_to_delete, sorted_pages, pdf_pages, objects_to_remove,
                   items_removed, page_queue, calls, inv,
                   manager, downloader>>

(***************************************************************************)
(* get_pdf_info(path)                                                      *)
(***************************************************************************)
\* pdf.rs:14-48
InfoCall(path) ==
    /\ pc = "idle"
    /\ op' = "get_pdf_info"
    /\ input_paths' = <<path>>
    /\ reads' = reads \cup {path}
    /\ IF ~Loadable(path)
       THEN Return(Err("Failed to load PDF")) /\ UNCHANGED doc
       ELSE Return(PdfInfo(path, disk[path].doc)) /\ doc' = disk[path].doc
    /\ UNCHANGED <<disk, idx, base_doc, id_maps, pages_to_delete, sorted_pages,
                   pdf_pages, objects_to_remove, items_removed, page_queue, calls, inv,
                   manager, downloader>>

Next ==
    \/ \E paths \in SeqsUpTo(PdfPaths, MaxInputs) : MergeCall(paths)
    \/ MergeFold
    \/ MergeSave
    \/ \E path \in PdfPaths, pages \in SeqsUpTo(0..MaxPageNumber, MaxDelete) :
          DeleteCall(path, pages)
    \/ DeleteStep
    \/ DeleteSave
    \/ \E paths \in SeqsUpTo(ImagePaths, MaxInputs) : ImagesCall(paths)
    \/ ImagesStep
    \/ ImagesSave
    \/ \E path \in WatermarkPaths : WatermarkCall(path)
    \/ WatermarkPage
    \/ WatermarkSave
    \/ \E path \in InfoPaths : InfoCall(path)

Spec == Init /\ [][Next]_vars

\* an operation that was called runs on: its thread takes the next step of its loop
Running ==
    \/ MergeFold
    \/ MergeSave
    \/ DeleteStep
    \/ DeleteSave
    \/ ImagesStep
    \/ ImagesSave
    \/ WatermarkPage
    \/ WatermarkSave

LivePdfPaths == {"a.pdf", "b.pdf", "junk.pdf"}
LiveImagePaths == {"small.png", "hd.png", "junk.png"}

LiveNext ==
    \/ \E paths \in SeqsUpTo(LivePdfPaths, MaxLiveInputs) : MergeCall(paths)
    \/ MergeFold
    \/ MergeSave
    \/ \E path \in LivePdfPaths, pages \in SeqsUpTo(0..MaxPageNumber, MaxLiveDelete) :
          DeleteCall(path, pages)
    \/ DeleteStep
    \/ DeleteSave
    \/ \E paths \in SeqsUpTo(LiveImagePaths, MaxLiveInputs) : ImagesCall(paths)
    \/ ImagesStep
    \/ ImagesSave
    \/ \E path \in WatermarkPaths : WatermarkCall(path)
    \/ WatermarkPage
    \/ WatermarkSave
    \/ \E path \in InfoPaths : InfoCall(path)

\* the commands of Next on fewer files, with the fairness of a thread that runs
LiveSpec == Init /\ [][LiveNext]_vars /\ WF_vars(Running)

(***************************************************************************)
(* Commands one after another: the caller reads the result and issues the  *)
(* next command, which may take the output of the last one as an input.    *)
(***************************************************************************)
SeqPaths == {"a.pdf", "b.pdf", OutPath}

\* merge_pdfs requests of a sequence: the output of an earlier command is taken as
\* the base, the sources are original files; copying out.pdf onto itself is left out
SeqMerges ==
    {paths \in SeqsUpTo(SeqPaths, MaxSeqInputs) :
        paths # <<OutPath>> /\ \A i \in 2..Len(paths) : paths[i] # OutPath}

\* the command has returned and the caller issues another
Again ==
    /\ pc = "done"
    /\ calls < MaxCalls
    /\ calls' = calls + 1
    /\ pc' = "idle"
    /\ op' = "none"
    /\ reads' = {}
    /\ input_paths' = <<>>
    /\ idx' = 0
    /\ base_doc' = NoDoc
    /\ doc' = NoDoc
    /\ id_maps' = <<>>
    /\ pages_to_delete' = <<>>
    /\ sorted_pages' = <<>>
    /\ pdf_pages' = <<>>
    /\ objects_to_remove' = <<>>
    /\ items_removed' = 0
    /\ page_queue' = <<>>
    /\ result' = NoResult
    /\ UNCHANGED <<disk, inv, manager, downloader>>

SeqNext ==
    \/ \E paths \in SeqMerges : MergeCall(paths)
    \/ MergeFold
    \/ MergeSave
    \/ \E path \in SeqPaths, pages \in SeqsUpTo(1..MaxPageNumber, MaxSeqDelete) :
          DeleteCall(path, pages)
    \/ DeleteStep
    \/ DeleteSave
    \/ Again

SeqSpec == Init /\ [][SeqNext]_vars

(***************************************************************************)
(* Two invocations at once.  merge_pdfs and delete_pages keep everything   *)
(* in locals and share only the files; inv[p] holds the locals of          *)
(* invocation p, and each of its steps is that of the command above: the   *)
(* call with its checks and the load, one loop iteration, the save.        *)
(***************************************************************************)
ConcPaths == {"a.pdf", "c.pdf", "junk.pdf"}

\* one Document for both invocations
SharedDocument(p) == 1

\* pdf.rs:64, 414: let mut base_doc / let mut doc, a local of the invocation
OwnDocument(p) == p

DocumentOf(p) == inv[OwnDocument(p)].document

\* the invocation's locals become locals, its Document becomes d
Step(p, locals, d) ==
    inv' = [[inv EXCEPT ![p] = locals] EXCEPT ![OwnDocument(p)].document = d]

Returned(locals, r) == [locals EXCEPT !.pc = "done", !.result = r]

SingleUnchanged ==
    UNCHANGED <<pc, op, reads, input_paths, idx, base_doc, doc, id_maps,
                pages_to_delete, sorted_pages, pdf_pages, objects_to_remove,
                items_removed, page_queue, calls, manager, downloader, result>>

\* pdf.rs:52-65
ConcMergeCall(p, paths) ==
    /\ inv[p].pc = "idle"
    /\ SingleUnchanged
    /\ LET started == [inv[p] EXCEPT !.op = "merge_pdfs", !.input_paths = paths]
       IN  IF Len(paths) = 0
           THEN /\ Step(p, Returned(started, Err("No input files provided")), DocumentOf(p))
                /\ UNCHANGED disk
           ELSE IF Len(paths) = 1
           THEN IF disk[paths[1]].kind = "none"
                THEN /\ Step(p, Returned(started, Err("Failed to copy PDF")), DocumentOf(p))
                     /\ UNCHANGED disk
                ELSE /\ Step(p, Returned(started, Ok), DocumentOf(p))
                     /\ disk' = CopyFile(disk, paths[1], OutputPath(p))
           ELSE /\ UNCHANGED disk
                /\ IF Loadable(paths[1])
                   THEN Step(p, [started EXCEPT !.pc = "merge_loop", !.idx = 2],
                             disk[paths[1]].doc)
                   ELSE Step(p, Returned(started, Err("Failed to load first PDF")),
                             DocumentOf(p))

\* pdf.rs:68-121: one iteration
ConcMergeFold(p) ==
    /\ inv[p].pc = "merge_loop"
    /\ inv[p].idx <= Len(inv[p].input_paths)
    /\ SingleUnchanged
    /\ UNCHANGED disk
    /\ IF Loadable(inv[p].input_paths[inv[p].idx])
       THEN LET m == MergeSource(DocumentOf(p), disk[inv[p].input_paths[inv[p].idx]].doc)
            IN  IF m.ok
                THEN Step(p, [inv[p] EXCEPT !.idx = @ + 1], m.base_doc)
                ELSE Step(p, Returned(inv[p], Err("catalog")), m.base_doc)
       ELSE Step(p, Returned(inv[p], Err("Failed to load PDF")), DocumentOf(p))

\* pdf.rs:124-128
ConcMergeSave(p) ==
    /\ inv[p].pc = "merge_loop"
    /\ inv[p].idx > Len(inv[p].input_paths)
    /\ SingleUnchanged
    /\ disk' = [disk EXCEPT ![OutputPath(p)] = Pdf(DocumentOf(p), "lopdf")]
    /\ Step(p, Returned(inv[p], Ok), DocumentOf(p))

\* pdf.rs:414-436
ConcDeleteCall(p, path, pages) ==
    /\ inv[p].pc = "idle"
    /\ SingleUnchanged
    /\ UNCHANGED disk
    /\ LET started == [inv[p] EXCEPT !.op = "delete_pages", !.input_paths = <<path>>,
                                     !.pages_to_delete = pages]
       IN  IF ~Loadable(path)
           THEN Step(p, Returned(started, Err("Failed to load PDF")), DocumentOf(p))
           ELSE LET loaded == disk[path].doc
                    total_pages == Len(get_pages(loaded))
                IN  IF \E i \in DOMAIN pages : InvalidPage(pages[i], total_pages)
                    THEN Step(p, Returned(started, Err("Invalid page number")), loaded)
                    ELSE IF DeletesAllPages(pages, total_pages)
                    THEN Step(p, Returned(started, Err("Cannot delete all pages from PDF")),
                              loaded)
                    ELSE Step(p, [started EXCEPT !.pc = "delete_loop",
                                                 !.sorted_pages = SortDescending(pages)],
                              loaded)

\* pdf.rs:438-440: one iteration
ConcDeleteStep(p) ==
    /\ inv[p].pc = "delete_loop"
    /\ inv[p].sorted_pages # <<>>
    /\ SingleUnchanged
    /\ UNCHANGED disk
    /\ Step(p, [inv[p] EXCEPT !.sorted_pages = Tail(@)],
            lopdf_delete_pages(DocumentOf(p), Head(inv[p].sorted_pages)))

\* pdf.rs:443-446
ConcDeleteSave(p) ==
    /\ inv[p].pc = "delete_loop"
    /\ inv[p].sorted_pages = <<>>
    /\ SingleUnchanged
    /\ disk' = [disk EXCEPT ![OutputPath(p)] = Pdf(DocumentOf(p), "lopdf")]
    /\ Step(p, Returned(inv[p], Ok), DocumentOf(p))

ConcNext ==
    \E p \in Procs :
        \/ \E paths \in SeqsUpTo(ConcPaths, MaxSeqInputs) : ConcMergeCall(p, paths)
        \/ ConcMergeFold(p)
        \/ ConcMergeSave(p)
        \/ \E path \in ConcPaths, pages \in SeqsUpTo(1..MaxConcPage, MaxSeqDelete) :
              ConcDeleteCall(p, path, pages)
        \/ ConcDeleteStep(p)
        \/ ConcDeleteSave(p)

ConcSpec == Init /\ [][ConcNext]_vars

(***************************************************************************)
(* merge_pdfs on documents that depart from the conventions: a reference   *)
(* to no object, an indirect Kids or Count, a Pages entry that leads to no *)
(* dictionary, a Catalog without Pages.                                    *)
(***************************************************************************)
MalformedNext ==
    \/ \E paths \in SeqsUpTo(MalformedPaths, MaxInputs) : MergeCall(paths)
    \/ MergeFold
    \/ MergeSave

MalformedSpec == Init /\ [][MalformedNext]_vars

(***************************************************************************)
(* remove_watermark called again, also on the file it wrote.               *)
(***************************************************************************)
RepeatNext ==
    \/ \E path \in WatermarkPaths \cup {OutPath} : WatermarkCall(path)
    \/ WatermarkPage
    \/ WatermarkSave
    \/ Again

RepeatSpec == Init /\ [][RepeatNext]_vars

(***************************************************************************)
(* DownloadManager: add_job, cancel_job and remove_job called by tasks     *)
(* that run at once.  A step is what a call does between two awaits of a   *)
(* lock.                                                                   *)
(***************************************************************************)
TaskStep(t, task) == [manager EXCEPT !.tasks[t] = task]

TaskReturns(t, r) == [manager.tasks[t] EXCEPT !.pc = "done", !.result = r]

\* mod.rs:54-57: the channel is made and the job inserted
AddJobCall(t, job_id) ==
    /\ manager.tasks[t].pc = "idle"
    /\ manager' =
          [manager EXCEPT
              !.channels = Append(@, NewChannel),
              !.jobs = MapInsert(@, job_id,
                                 [status |-> "Pending", rx |-> Len(manager.channels) + 1]),
              !.tasks[t] = [@ EXCEPT !.pc = "add_job_tokens", !.op = "add_job",
                                     !.job_id = job_id,
                                     !.tx = Len(manager.channels) + 1]]
    /\ UNCHANGED <<pdf_vars, downloader>>

\* mod.rs:58-60: the Sender is inserted and the Receiver returned
AddJobTokens(t) ==
    /\ manager.tasks[t].pc = "add_job_tokens"
    /\ manager' =
          [manager EXCEPT
              !.cancellation_tokens =
                  MapInsert(@, manager.tasks[t].job_id, manager.tasks[t].tx),
              !.channels[manager.tasks[t].tx].returned = TRUE,
              !.tasks[t] = TaskReturns(t, Ok)]
    /\ UNCHANGED <<pdf_vars, downloader>>

\* mod.rs:73: Sender::send(true) on a channel with a Receiver
Send(channels, tx) == [channels EXCEPT ![tx].value = TRUE]

\* mod.rs:72-74: the Sender is looked up and the signal sent; send fails when the
\* Receiver is gone
CancelJobCall(t, job_id) ==
    /\ manager.tasks[t].pc = "idle"
    /\ LET called == [manager.tasks[t] EXCEPT !.op = "cancel_job", !.job_id = job_id]
       IN  IF job_id \in DOMAIN manager.cancellation_tokens
           THEN LET tx == manager.cancellation_tokens[job_id]
                IN  IF manager.channels[tx].rx_alive
                    THEN manager' =
                            [manager EXCEPT
                                !.channels = Send(@, tx),
                                !.tasks[t] = [called EXCEPT !.pc = "cancel_job_update"]]
                    ELSE manager' =
                            [manager EXCEPT
                                !.tasks[t] = [called EXCEPT !.pc = "done",
                                                            !.result = Err("channel closed")]]
           ELSE manager' = TaskStep(t, [called EXCEPT !.pc = "cancel_job_update"])
    /\ UNCHANGED <<pdf_vars, downloader>>

\* mod.rs:63-69: update_job(job_id, Cancelled, None, None)
update_job(jobs, job_id, status) ==
    IF job_id \in DOMAIN jobs THEN [jobs EXCEPT ![job_id].status = status] ELSE jobs

\* mod.rs:75-76
CancelJobUpdate(t) ==
    /\ manager.tasks[t].pc = "cancel_job_update"
    /\ manager' =
          [manager EXCEPT
              !.jobs = update_job(@, manager.tasks[t].job_id, "Cancelled"),
              !.tasks[t] = TaskReturns(t, Ok)]
    /\ UNCHANGED <<pdf_vars, downloader>>

\* mod.rs:84
RemoveJobCall(t, job_id) ==
    /\ manager.tasks[t].pc = "idle"
    /\ manager' =
          [manager EXCEPT
              !.jobs = MapRemove(@, job_id),
              !.tasks[t] = [@ EXCEPT !.pc = "remove_job_tokens", !.op = "remove_job",
                                     !.job_id = job_id]]
    /\ UNCHANGED <<pdf_vars, downloader>>

\* mod.rs:85
RemoveJobTokens(t) ==
    /\ manager.tasks[t].pc = "remove_job_tokens"
    /\ manager' =
          [manager EXCEPT
              !.cancellation_tokens = MapRemove(@, manager.tasks[t].job_id),
              !.tasks[t] = TaskReturns(t, Ok)]
    /\ UNCHANGED <<pdf_vars, downloader>>

\* the caller of add_job drops the Receiver it was given
DropReceiver(ch) ==
    /\ manager.channels[ch].returned
    /\ manager.channels[ch].rx_alive
    /\ manager' = [manager EXCEPT !.channels[ch].rx_alive = FALSE]
    /\ UNCHANGED <<pdf_vars, downloader>>

ManagerNext ==
    \/ \E t \in Tasks, job_id \in JobIds : AddJobCall(t, job_id)
    \/ \E t \in Tasks : AddJobTokens(t)
    \/ \E t \in Tasks, job_id \in JobIds : CancelJobCall(t, job_id)
    \/ \E t \in Tasks : CancelJobUpdate(t)
    \/ \E t \in Tasks, job_id \in JobIds : RemoveJobCall(t, job_id)
    \/ \E t \in Tasks : RemoveJobTokens(t)
    \/ \E ch \in DOMAIN manager.channels : DropReceiver(ch)

ManagerSpec == Init /\ [][ManagerNext]_vars

(***************************************************************************)
(* SimpleDownloader: download and download_and_merge.  A step is what the  *)
(* call does when an await completes; what the network, the file system    *)
(* and ffmpeg answer is chosen freely, and the cancel signal may be set at *)
(* any moment of a running call.                                           *)
(***************************************************************************)
Returns(r) == [downloader EXCEPT !.pc = "done", !.result = r]

\* the progress event, emitted when 100 ms have passed since the last one
Progress(emit) == IF emit THEN {"download-progress"} ELSE {}

\* mod.rs:73 seen from the call: cancel_rx now reads true
Cancel ==
    /\ downloader.pc \notin {"idle", "done"}
    /\ ~downloader.cancel
    /\ downloader' = [downloader EXCEPT !.cancel = TRUE]
    /\ UNCHANGED <<pdf_vars, manager>>

\* simple.rs:26-40: create_dir_all
DownloadCall ==
    /\ downloader.pc = "idle"
    /\ \E created \in BOOLEAN :
          downloader' =
              IF created
              THEN [downloader EXCEPT !.op = "download", !.pc = "download_send"]
              ELSE [downloader EXCEPT !.op = "download", !.pc = "done",
                                      !.result = Err("Failed to create directory")]
    /\ UNCHANGED <<pdf_vars, manager>>

\* simple.rs:43-71: the request, the status, File::create
DownloadSend ==
    /\ downloader.pc = "download_send"
    /\ \E outcome \in {"ok", "fetch", "http", "create"} :
          downloader' =
              CASE outcome = "ok" ->
                      [downloader EXCEPT !.files = @ \cup {OutputFile},
                                         !.pc = "download_stream"]
                [] outcome = "fetch" -> Returns(Err("Failed to fetch"))
                [] outcome = "http" -> Returns(Err("HTTP error"))
                [] OTHER -> Returns(Err("Failed to create file"))
    /\ UNCHANGED <<pdf_vars, manager>>

\* simple.rs:73-111: stream.next() yields an item
DownloadChunk ==
    /\ downloader.pc = "download_stream"
    /\ downloader.chunks < MaxChunks
    /\ \E item \in {"chunk", "error"}, written \in BOOLEAN, emit \in BOOLEAN :
          downloader' =
              IF downloader.cancel
              THEN [Returns(Err("Download cancelled")) EXCEPT !.files = @ \ {OutputFile}]
              ELSE IF item = "error" THEN Returns(Err("Stream error"))
              ELSE IF ~written THEN Returns(Err("Write error"))
              ELSE [downloader EXCEPT !.chunks = @ + 1,
                                      !.events = @ \cup Progress(emit)]
    /\ UNCHANGED <<pdf_vars, manager>>

\* simple.rs:73, 114-137: stream.next() yields None
DownloadEnd ==
    /\ downloader.pc = "download_stream"
    /\ \E flushed \in BOOLEAN :
          downloader' =
              IF flushed
              THEN [Returns(Ok) EXCEPT
                       !.events = @ \cup {"download-progress", "download-complete"}]
              ELSE Returns(Err("Flush error"))
    /\ UNCHANGED <<pdf_vars, manager>>

Stages == {"video", "audio"}

\* where the call is: in the download of a stage, before or after File::create
At(stage, step) == stage \o "_" \o step

\* simple.rs:141-162
AndMergeCall ==
    /\ downloader.pc = "idle"
    /\ downloader' = [downloader EXCEPT !.op = "download_and_merge", !.pc = At("video", "send")]
    /\ UNCHANGED <<pdf_vars, manager>>

TempOf(stage) == IF stage = "video" THEN VideoTemp ELSE AudioTemp

\* simple.rs:177-180, 202-207: what the caller does with a failed download
StageFails(stage, msg) ==
    IF stage = "video" THEN Returns(Err(msg))
    ELSE [Returns(Err(msg)) EXCEPT !.files = @ \ {VideoTemp}]

\* simple.rs:276-311: download_file_with_progress up to File::create
DownloadFileSend(stage) ==
    /\ downloader.op = "download_and_merge"
    /\ downloader.pc = At(stage, "send")
    /\ \E outcome \in {"ok", "dir", "fetch", "http", "create"} :
          downloader' =
              CASE outcome = "ok" ->
                      [downloader EXCEPT !.files = @ \cup {TempOf(stage)},
                                         !.chunks = 0,
                                         !.pc = At(stage, "stream")]
                [] outcome = "dir" -> StageFails(stage, "Failed to create directory")
                [] outcome = "fetch" -> StageFails(stage, "Failed to fetch")
                [] outcome = "http" -> StageFails(stage, "HTTP error")
                [] OTHER -> StageFails(stage, "Failed to create file")
    /\ UNCHANGED <<pdf_vars, manager>>

\* simple.rs:313-349: stream.next() yields an item
DownloadFileChunk(stage) ==
    /\ downloader.pc = At(stage, "stream")
    /\ downloader.chunks < MaxChunks
    /\ \E item \in {"chunk", "error"}, written \in BOOLEAN, emit \in BOOLEAN :
          downloader' =
              IF item = "error" THEN StageFails(stage, "Stream error")
              ELSE IF ~written THEN StageFails(stage, "Write error")
              ELSE [downloader EXCEPT !.chunks = @ + 1,
                                      !.events = @ \cup Progress(emit)]
    /\ UNCHANGED <<pdf_vars, manager>>

\* simple.rs:183-187, 210-228: the check of the cancel signal after a download
AfterStage(stage) ==
    IF stage = "video"
    THEN IF downloader.cancel
         THEN [Returns(Err("Download cancelled")) EXCEPT !.files = @ \ {VideoTemp}]
         ELSE [downloader EXCEPT !.pc = At("audio", "send")]
    ELSE IF downloader.cancel
         THEN [Returns(Err("Download cancelled")) EXCEPT
                  !.files = @ \ {VideoTemp, AudioTemp}]
         ELSE [downloader EXCEPT !.pc = "merging",
                                 !.events = @ \cup {"download-progress"}]

\* simple.rs:313, 351-355: stream.next() yields None, flush, then the caller's check
DownloadFileEnd(stage) ==
    /\ downloader.pc = At(stage, "stream")
    /\ \E flushed \in BOOLEAN :
          downloader' =
              IF flushed THEN AfterStage(stage) ELSE StageFails(stage, "Flush error")
    /\ UNCHANGED <<pdf_vars, manager>>

\* ffmpeg.rs:12-96 and simple.rs:231-261
MergeVideoAudio ==
    /\ downloader.pc = "merging"
    /\ \E outcome \in {"ok", "dir", "spawn", "no output", "join"} :
          downloader' =
              IF VideoTemp \notin downloader.files \/ AudioTemp \notin downloader.files
                 \/ outcome # "ok"
              THEN Returns(Err("Failed to merge"))
              ELSE [Returns(Ok) EXCEPT
                       !.files = (@ \cup {OutputFile}) \ {VideoTemp, AudioTemp},
                       !.events = @ \cup {"download-progress", "download-complete"}]
    /\ UNCHANGED <<pdf_vars, manager>>

DownloadNext ==
    \/ Cancel
    \/ DownloadCall
    \/ DownloadSend
    \/ DownloadChunk
    \/ DownloadEnd
    \/ AndMergeCall
    \/ \E stage \in Stages : DownloadFileSend(stage)
    \/ \E stage \in Stages : DownloadFileChunk(stage)
    \/ \E stage \in Stages : DownloadFileEnd(stage)
    \/ MergeVideoAudio

DownloadSpec == Init /\ [][DownloadNext]_vars

(***************************************************************************)
(* What the properties below speak of.                                     *)
(***************************************************************************)
\* the payload of the stream a page's Contents refers to: what the page shows
PageLabel(d, page_id) ==
    LET page == d.objects[page_id].dict
    IN  IF HasRef(page, "Contents") /\ HasObject(d, page["Contents"].ref)
           /\ d.objects[page["Contents"].ref].t = "Stream"
        THEN d.objects[page["Contents"].ref].content
        ELSE "?"

\* the pages of a document, in document order
PageLabels(d) == [i \in DOMAIN get_pages(d) |-> PageLabel(d, get_pages(d)[i])]

\* I1: every Reference in a live object or in the trailer resolves
NoDangling(d) ==
    /\ \A id \in DOMAIN d.objects : RefsIn(d.objects[id]) \subseteq DOMAIN d.objects
    /\ RefsIn(Dictionary(d.trailer)) \subseteq DOMAIN d.objects

\* I2: max_id is at least every live object number
MaxIdCovers(d) == \A id \in DOMAIN d.objects : id[1] <= d.max_id

\* the conventions of a valid document: I1, I2, a Catalog whose Pages entry
\* refers to a dictionary with an inline Kids array and an integer Count
ValidDoc(d) ==
    /\ NoDangling(d)
    /\ MaxIdCovers(d)
    /\ PagesRefOk(d)
    /\ IsDictAt(d, PagesId(d))
    /\ Has(d.objects[PagesId(d)].dict, "Kids")
    /\ d.objects[PagesId(d)].dict["Kids"].t = "Array"
    /\ Has(d.objects[PagesId(d)].dict, "Count")
    /\ d.objects[PagesId(d)].dict["Count"].t = "Integer"

ValidInput(path) == Disk0[path].kind = "pdf" /\ ValidDoc(Disk0[path].doc)

\* the pages of the files paths[1..n], one file after the other
RECURSIVE LabelsOf(_, _)
LabelsOf(paths, n) ==
    IF n = 0 THEN <<>> ELSE LabelsOf(paths, n - 1) \o PageLabels(Disk0[paths[n]].doc)

Merging == op = "merge_pdfs" /\ pc = "merge_loop"
MergeDone == op = "merge_pdfs" /\ pc = "done" /\ result = Ok

(***************************************************************************)
(* C1: for every non-empty list of valid documents, the merged document's  *)
(* pages are the pages of the first input, then of the second, ..., each   *)
(* in its own order, so its page count is the sum of theirs.  The same     *)
(* holds of the base after each source folded in.                          *)
(***************************************************************************)
C1_MergeConcatenatesPages ==
    /\ (Merging /\ \A i \in 1..(idx - 1) : ValidInput(input_paths[i]))
          => PageLabels(base_doc) = LabelsOf(input_paths, idx - 1)
    /\ (MergeDone /\ \A i \in DOMAIN input_paths : ValidInput(input_paths[i]))
          => /\ disk[OutPath].kind = "pdf"
             /\ PageLabels(disk[OutPath].doc) = LabelsOf(input_paths, Len(input_paths))

C1_Witness ==
    /\ MergeDone
    /\ input_paths = <<"b.pdf", "a.pdf", "b.pdf">>
    /\ PageLabels(disk[OutPath].doc) = <<"b1", "b2", "b3", "b4", "a1", "a2", "b1", "b2", "b3", "b4">>

(***************************************************************************)
(* C2: while and after merging documents that each satisfy I1, every       *)
(* Reference in the merged graph, at any depth, resolves in that graph.    *)
(***************************************************************************)
C2_MergeNoDangling ==
    /\ (Merging /\ \A i \in 1..(idx - 1) : ValidInput(input_paths[i]))
          => NoDangling(base_doc)
    /\ (MergeDone /\ Len(input_paths) >= 2
          /\ \A i \in DOMAIN input_paths : ValidInput(input_paths[i]))
          => NoDangling(disk[OutPath].doc)

C2_Witness ==
    /\ MergeDone
    /\ input_paths = <<"a.pdf", "b.pdf">>
    /\ <<17, 0>> \in RefsIn(disk[OutPath].doc.objects[<<14, 0>>])
    /\ NoDangling(disk[OutPath].doc)

(***************************************************************************)
(* C3: the remapping is injective over all sources and never yields an id  *)
(* that was live in the base, so no insert overwrites an object; also when *)
(* a document is merged with itself.                                       *)
(***************************************************************************)
C3_RemapInjective ==
    (op = "merge_pdfs" /\ base_doc # NoDoc) =>
        /\ \A i, j \in DOMAIN id_maps :
             \A a \in DOMAIN id_maps[i], b \in DOMAIN id_maps[j] :
                (i # j \/ a # b) => id_maps[i][a] # id_maps[j][b]
        /\ \A i \in DOMAIN id_maps :
             Range(id_maps[i]) \cap DOMAIN Disk0[input_paths[1]].doc.objects = {}
        /\ DOMAIN base_doc.objects =
              DOMAIN Disk0[input_paths[1]].doc.objects
                 \cup UNION {Range(id_maps[i]) : i \in DOMAIN id_maps}

C3_Witness ==
    /\ MergeDone
    /\ input_paths = <<"b.pdf", "b.pdf", "b.pdf">>
    /\ Len(id_maps) = 2
    /\ Cardinality(DOMAIN disk[OutPath].doc.objects) = 36

\* a fold that goes on to the next source: what it allocates and persists
FoldAllocates ==
    (Merging /\ pc' = "merge_loop" /\ idx' = idx + 1) =>
        LET k == Cardinality(DOMAIN disk[input_paths[idx]].doc.objects)
            fresh == {<<n, 0>> : n \in (base_doc.max_id + 1)..(base_doc.max_id + k)}
        IN  /\ Range(id_maps'[Len(id_maps')]) = fresh
            /\ DOMAIN base_doc'.objects = DOMAIN base_doc.objects \cup fresh
            /\ base_doc'.max_id = base_doc.max_id + k

(***************************************************************************)
(* C4: after each source folded in, max_id is at least every live object   *)
(* number; folding a source of k objects allocates exactly the ids         *)
(* max_id+1 .. max_id+k and persists max_id := max_id+k.                   *)
(***************************************************************************)
C4_MaxIdCoversLiveObjects ==
    /\ [](Merging => MaxIdCovers(base_doc))
    /\ [][FoldAllocates]_vars

C4_Witness ==
    /\ Merging
    /\ input_paths = <<"b.pdf", "b.pdf", "c.pdf">>
    /\ idx = 3
    /\ base_doc.max_id = 37
    /\ <<37, 0>> \in DOMAIN base_doc.objects

(***************************************************************************)
(* C5: merge never mutates a source: the document folded in is, after the  *)
(* step, the document that was loaded, and no input file is written.       *)
(***************************************************************************)
C5_SourceNotMutated ==
    (op = "merge_pdfs") =>
        /\ \A p \in Paths \ {OutPath} : disk[p] = Disk0[p]
        /\ (id_maps # <<>>) => doc = Disk0[input_paths[Len(id_maps) + 1]].doc

C5_Witness ==
    /\ Merging
    /\ idx = 3
    /\ input_paths[2] = "b.pdf"
    /\ doc = DocB
    /\ base_doc # Disk0[input_paths[1]].doc

(***************************************************************************)
(* C6: merge of a one-element list writes an output identical to the       *)
(* input: nothing is loaded into a graph, remapped or rewritten.           *)
(***************************************************************************)
C6_SingleInputIsCopy ==
    (MergeDone /\ Len(input_paths) = 1) =>
        /\ disk[OutPath] = Disk0[input_paths[1]]
        /\ id_maps = <<>>
        /\ base_doc = NoDoc

C6_Witness ==
    /\ MergeDone
    /\ input_paths = <<"b.pdf">>
    /\ disk[OutPath] = Pdf(DocB, "orig")

(***************************************************************************)
(* C7: if any input of merge is unreadable or no valid document, for a     *)
(* list of one element or more, merge fails and writes no output.          *)
(***************************************************************************)
C7_MergeFailsOnBadInput ==
    (op = "merge_pdfs" /\ pc = "done"
        /\ \E i \in DOMAIN input_paths : Disk0[input_paths[i]].kind # "pdf")
      => (~result.ok /\ disk[OutPath] = NoFile)

(***************************************************************************)
(* C8: merge and images_to_pdf on an empty list return a usage error       *)
(* before any file is read, anything is built or any output is written.    *)
(***************************************************************************)
C8_EmptyInputRejected ==
    (op \in {"merge_pdfs", "images_to_pdf"} /\ input_paths = <<>>) =>
        /\ pc = "done"
        /\ result = IF op = "merge_pdfs" THEN Err("No input files provided")
                    ELSE Err("No image files provided")
        /\ reads = {}
        /\ disk = Disk0
        /\ base_doc = NoDoc
        /\ pdf_pages = <<>>

C8_Witness ==
    /\ op = "merge_pdfs"
    /\ input_paths = <<>>
    /\ result = Err("No input files provided")

(***************************************************************************)
(* C9: on a loaded document of n pages delete_pages rejects the request,   *)
(* with an error, the document as loaded and nothing written, exactly when *)
(* some page number is 0, some page number exceeds n, or the request has   *)
(* n or more entries; every other request goes on to the deletion.         *)
(***************************************************************************)
C9_DeleteValidation ==
    (op = "delete_pages" /\ Disk0[input_paths[1]].kind = "pdf") =>
        LET n == Len(get_pages(Disk0[input_paths[1]].doc))
            rejected ==
                \/ \E i \in DOMAIN pages_to_delete : pages_to_delete[i] = 0
                \/ \E i \in DOMAIN pages_to_delete : pages_to_delete[i] > n
                \/ Len(pages_to_delete) >= n
        IN  IF rejected
            THEN /\ pc = "done"
                 /\ ~result.ok
                 /\ doc = Disk0[input_paths[1]].doc
                 /\ disk = Disk0
            ELSE \/ pc = "delete_loop"
                 \/ pc = "done" /\ result = Ok /\ disk[OutPath].kind = "pdf"

C9_Witness ==
    /\ op = "delete_pages"
    /\ input_paths = <<"a.pdf">>
    /\ pages_to_delete = <<2, 2>>
    /\ result = Err("Cannot delete all pages from PDF")
    /\ disk = Disk0

\* the entries of labels at the positions 1..n that are not in P, in order
RECURSIVE KeepPages(_, _, _)
KeepPages(labels, P, n) ==
    IF n = 0 THEN <<>>
    ELSE KeepPages(labels, P, n - 1) \o (IF n \in P THEN <<>> ELSE <<labels[n]>>)

(***************************************************************************)
(* C10: for every accepted request P on a document of n pages the output's *)
(* pages are the original pages whose 1-indexed positions are not in P, in *)
(* their original order.                                                   *)
(***************************************************************************)
C10_DeleteKeepsOtherPages ==
    (op = "delete_pages" /\ pc = "done" /\ result = Ok) =>
        LET before == PageLabels(Disk0[input_paths[1]].doc)
        IN  PageLabels(disk[OutPath].doc) =
                KeepPages(before, Range(pages_to_delete), Len(before))

(***************************************************************************)
(* C11: after a successful delete_pages on a document with at least one    *)
(* page, the resulting document has at least one page.                     *)
(***************************************************************************)
C11_DeleteLeavesAPage ==
    (op = "delete_pages" /\ pc = "done" /\ result = Ok
        /\ Len(get_pages(Disk0[input_paths[1]].doc)) >= 1)
      => Len(get_pages(disk[OutPath].doc)) >= 1

C11_Witness ==
    /\ op = "delete_pages"
    /\ pc = "done"
    /\ result = Ok
    /\ input_paths = <<"b.pdf">>
    /\ pages_to_delete = <<1, 1, 1>>
    /\ PageLabels(disk[OutPath].doc) = <<"b4">>

(***************************************************************************)
(* remove_watermark: what the detection rules say, stated on the objects.  *)
(***************************************************************************)
WatermarkDone == op = "remove_watermark" /\ pc = "done" /\ result.ok

WatermarkInput == Disk0[input_paths[1]].doc

WatermarkOutput == disk[OutPath].doc

\* x occurs in n as a contiguous run
IsSubstring(x, n) ==
    \E i \in 0..(Len(n) - Len(x)) : \A j \in 1..Len(x) : n[i + j] = x[j]

HasName(d, key, value) == key \in DOMAIN d /\ d[key] = Name(value)

MatchesRule(obj) ==
    \/ /\ obj.t \in {"Dictionary", "Stream"}
       /\ "Name" \in DOMAIN obj.dict
       /\ obj.dict["Name"].t = "Name"
       /\ \E k \in DOMAIN watermark_indicators :
              IsSubstring(Bytes(watermark_indicators[k]), Bytes(obj.dict["Name"].name))
    \/ obj.t = "Dictionary" /\ HasName(obj.dict, "Subtype", "Watermark")
    \/ /\ obj.t = "Dictionary"
       /\ HasName(obj.dict, "Type", "Annot")
       /\ HasName(obj.dict, "Subtype", "Watermark")

RemovalSet(d) == {id \in DOMAIN d.objects : MatchesRule(d.objects[id])}

\* the inline Annots array of a page, <<>> when it has none
AnnotsOf(d, page_id) ==
    IF "Annots" \in DOMAIN d.objects[page_id].dict
       /\ d.objects[page_id].dict["Annots"].t = "Array"
    THEN d.objects[page_id].dict["Annots"].arr
    ELSE <<>>

\* the references dropped from the Annots arrays of the pages
RECURSIVE DroppedReferences(_, _, _)
DroppedReferences(before, after, page_ids) ==
    IF page_ids = <<>> THEN 0
    ELSE Len(AnnotsOf(before, Head(page_ids))) - Len(AnnotsOf(after, Head(page_ids)))
         + DroppedReferences(before, after, Tail(page_ids))

\* an Annots entry that refers to a removed object or to a Watermark object
RefersToWatermark(d, entry) ==
    /\ entry.t = "Reference"
    /\ \/ entry.ref \in RemovalSet(d)
       \/ /\ entry.ref \in DOMAIN d.objects
          /\ d.objects[entry.ref].t \in {"Dictionary", "Stream"}
          /\ HasName(d.objects[entry.ref].dict, "Subtype", "Watermark")

SurvivingAnnots(d, page_id) ==
    LET Survives(entry) == ~RefersToWatermark(d, entry)
    IN  SelectSeq(AnnotsOf(d, page_id), Survives)

(* C12: remove_watermark deletes from the object mapping exactly the objects that match a detection rule, each once; every other object stays, and when nothing matches the mapping is unchanged. *)
C12_RemovesExactlyMatching ==
    WatermarkDone =>
        /\ DOMAIN WatermarkOutput.objects
              = (DOMAIN WatermarkInput.objects) \ RemovalSet(WatermarkInput)
        /\ RemovalSet(WatermarkInput) = {}
              => WatermarkOutput.objects = WatermarkInput.objects

C12_Witness ==
    /\ WatermarkDone
    /\ input_paths = <<"w.pdf">>
    /\ RemovalSet(WatermarkInput) = {<<10, 0>>, <<12, 0>>, <<13, 0>>}
    /\ <<17, 0>> \in DOMAIN WatermarkOutput.objects
    /\ <<13, 0>> \notin DOMAIN WatermarkOutput.objects

(* C13: the reported items_removed is the number of distinct objects deleted from the mapping plus the number of references dropped from the pages' Annots arrays. *)
C13_CountsDistinctRemovals ==
    WatermarkDone =>
        result.items_removed
            = Cardinality((DOMAIN WatermarkInput.objects) \ DOMAIN WatermarkOutput.objects)
              + DroppedReferences(WatermarkInput, WatermarkOutput,
                                  get_pages(WatermarkOutput))

C15_SuccessIffRemoved ==
    WatermarkDone =>
        /\ result.success <=> result.items_removed > 0
        /\ result.items_removed > 0
              => result.message = <<"Found and removed", result.items_removed>>
        /\ result.items_removed = 0 => result.message = <<"No obvious">>

C15_Witness ==
    /\ WatermarkDone
    /\ input_paths = <<"a.pdf">>
    /\ result.items_removed = 0
    /\ ~result.success
    /\ WatermarkOutput.objects = DocA.objects


(***************************************************************************)
(* images_to_pdf                                                           *)
(***************************************************************************)
ImagesDone == op = "images_to_pdf" /\ pc = "done"

AllDecodable == \A i \in DOMAIN input_paths : Disk0[input_paths[i]].kind = "image"

F32LessEq(a, b) == ~F32Less(b, a)

(* C16: images_to_pdf on k >= 1 decodable images writes a document of exactly k pages, the i-th page holding the i-th image; if an image cannot be read or decoded it fails and writes nothing. *)
C16_OnePagePerImage ==
    (ImagesDone /\ Len(input_paths) >= 1) =>
        IF AllDecodable
        THEN /\ result = Ok
             /\ Len(disk[OutPath].pages) = Len(input_paths)
             /\ \A i \in DOMAIN input_paths : disk[OutPath].pages[i].image = input_paths[i]
        ELSE /\ ~result.ok
             /\ disk[OutPath] = Disk0[OutPath]

C16_Witness ==
    /\ ImagesDone
    /\ input_paths = <<"wide.png", "small.png", "hd.png">>
    /\ result = Ok
    /\ Len(disk[OutPath].pages) = 3
    /\ disk[OutPath].pages[1].image = "wide.png"

(* C17: the page made for an image of positive width and height is the image at 96 pixels per inch scaled by min(1, 210 / width_mm, 297 / height_mm): it exceeds the A4 sheet in neither dimension and is not larger than the unscaled image. *)
C17_PageWithinSheet ==
    (ImagesDone /\ result = Ok) =>
        \A i \in DOMAIN disk[OutPath].pages :
            LET page == disk[OutPath].pages[i]
                img == Disk0[page.image]
            IN  /\ F32LessEq(page.width_mm, F32FromInt(max_width_mm))
                /\ F32LessEq(page.height_mm, F32FromInt(max_height_mm))
                /\ F32LessEq(page.width_mm, PixelsToMm(img.width))
                /\ F32LessEq(page.height_mm, PixelsToMm(img.height))


(***************************************************************************)
(* get_pdf_info                                                            *)
(***************************************************************************)
InfoDone == op = "get_pdf_info" /\ pc = "done"

InfoInput == Disk0[input_paths[1]]

\* the leaf pages of a document whose every Page object is in its page tree
LeafPages(d) ==
    {id \in DOMAIN d.objects :
        d.objects[id].t = "Dictionary" /\ HasName(d.objects[id].dict, "Type", "Page")}

\* the trailer's Info entry is a reference to a dictionary holding key as a string
InfoHolds(d, key) ==
    /\ "Info" \in DOMAIN d.trailer
    /\ d.trailer["Info"].t = "Reference"
    /\ d.trailer["Info"].ref \in DOMAIN d.objects
    /\ d.objects[d.trailer["Info"].ref].t = "Dictionary"
    /\ key \in DOMAIN d.objects[d.trailer["Info"].ref].dict
    /\ d.objects[d.trailer["Info"].ref].dict[key].t = "String"

(* C18: get_pdf_info on a loadable document succeeds and writes nothing; pages is the number of leaf pages, and title and author are each present exactly when the trailer's Info entry is a reference to a dictionary holding that entry as a string. *)
C18_InfoBestEffort ==
    (InfoDone /\ InfoInput.kind = "pdf") =>
        /\ result.ok
        /\ disk = Disk0
        /\ result.pages = Cardinality(LeafPages(InfoInput.doc))
        /\ result.title.some <=> InfoHolds(InfoInput.doc, "Title")
        /\ result.author.some <=> InfoHolds(InfoInput.doc, "Author")

C18_Witness ==
    /\ InfoDone
    /\ input_paths = <<"i6.pdf">>
    /\ result.ok
    /\ result.pages = 1
    /\ result.title = Some("T\\uFFFD")
    /\ result.author = None


(***************************************************************************)
(* The page tree's Count entries.                                          *)
(***************************************************************************)
\* the Pages nodes reachable from id through Kids, id included
RECURSIVE PagesNodesUnder(_, _, _)
PagesNodesUnder(d, id, fuel) ==
    {id} \cup
    UNION {IF fuel > 0 /\ KidsOf(d, id)[i].t = "Reference"
              /\ IsDictAt(d, KidsOf(d, id)[i].ref)
              /\ TypeName(d.objects[KidsOf(d, id)[i].ref].dict) = "Pages"
           THEN PagesNodesUnder(d, KidsOf(d, id)[i].ref, fuel - 1)
           ELSE {} : i \in DOMAIN KidsOf(d, id)}

\* the leaf pages reachable beneath a Pages node through Kids
LeavesUnder(d, id) == PageIter(d, KidsOf(d, id), Cardinality(DOMAIN d.objects))

CountsConsistent(d) ==
    \A id \in PagesNodesUnder(d, PagesId(d), Cardinality(DOMAIN d.objects)) :
        /\ "Count" \in DOMAIN d.objects[id].dict
        /\ d.objects[id].dict["Count"] = Integer(Len(LeavesUnder(d, id)))

(* C19: after any sequence of merge_pdfs and delete_pages commands on documents whose page trees are consistent, every Pages node reachable from the Catalog has a Count equal to the number of leaf pages beneath it. *)
C19_CountsConsistent ==
    \A p \in SeqPaths : disk[p].kind = "pdf" => CountsConsistent(disk[p].doc)


(***************************************************************************)
(* What a command returns and writes when it runs alone on the files as    *)
(* they were.                                                              *)
(***************************************************************************)
RECURSIVE MergeRest(_, _, _)
MergeRest(base, paths, i) ==
    IF i > Len(paths) THEN [result |-> Ok, file |-> Pdf(base, "lopdf")]
    ELSE IF Disk0[paths[i]].kind # "pdf"
    THEN [result |-> Err("Failed to load PDF"), file |-> NoFile]
    ELSE LET m == MergeSource(base, Disk0[paths[i]].doc)
         IN  IF m.ok THEN MergeRest(m.base_doc, paths, i + 1)
             ELSE [result |-> Err("catalog"), file |-> NoFile]

MergeAlone(paths) ==
    IF Len(paths) = 0 THEN [result |-> Err("No input files provided"), file |-> NoFile]
    ELSE IF Len(paths) = 1
    THEN IF Disk0[paths[1]].kind = "none"
         THEN [result |-> Err("Failed to copy PDF"), file |-> NoFile]
         ELSE [result |-> Ok, file |-> Disk0[paths[1]]]
    ELSE IF Disk0[paths[1]].kind # "pdf"
    THEN [result |-> Err("Failed to load first PDF"), file |-> NoFile]
    ELSE MergeRest(Disk0[paths[1]].doc, paths, 2)

RECURSIVE DeleteEach(_, _)
DeleteEach(d, sorted) ==
    IF sorted = <<>> THEN d
    ELSE DeleteEach(lopdf_delete_pages(d, Head(sorted)), Tail(sorted))

DeleteAlone(path, pages) ==
    IF Disk0[path].kind # "pdf" THEN [result |-> Err("Failed to load PDF"), file |-> NoFile]
    ELSE LET total_pages == Len(get_pages(Disk0[path].doc))
         IN  IF \E i \in DOMAIN pages : pages[i] = 0 \/ pages[i] > total_pages
             THEN [result |-> Err("Invalid page number"), file |-> NoFile]
             ELSE IF Len(pages) >= total_pages
             THEN [result |-> Err("Cannot delete all pages from PDF"), file |-> NoFile]
             ELSE [result |-> Ok,
                   file |-> Pdf(DeleteEach(Disk0[path].doc, SortDescending(pages)), "lopdf")]

Alone(locals) ==
    IF locals.op = "merge_pdfs" THEN MergeAlone(locals.input_paths)
    ELSE DeleteAlone(locals.input_paths[1], locals.pages_to_delete)

(* C20: of two invocations of merge_pdfs or delete_pages running at once on shared inputs and separate outputs, each returns the result and writes the output it would when run alone, under every interleaving of their load, loop and save steps, and the inputs stay as they were. *)
C20_InvocationsIsolated ==
    /\ \A p \in Procs :
          inv[p].pc = "done" =>
              /\ inv[p].result = Alone(inv[p]).result
              /\ disk[OutputPath(p)] = Alone(inv[p]).file
    /\ \A path \in ConcPaths : disk[path] = Disk0[path]

C20_Witness ==
    /\ inv[1].pc = "done" /\ inv[1].op = "merge_pdfs"
    /\ inv[1].input_paths = <<"a.pdf", "c.pdf">>
    /\ inv[2].pc = "done" /\ inv[2].op = "delete_pages"
    /\ inv[2].input_paths = <<"a.pdf">> /\ inv[2].pages_to_delete = <<2>>
    /\ inv[1].result = Ok /\ inv[2].result = Ok
    /\ PageLabels(disk["out1.pdf"].doc) = <<"a1", "a2", "c1">>
    /\ PageLabels(disk["out2.pdf"].doc) = <<"a1">>


(***************************************************************************)
(* merge_pdfs: the rewriting of references.                                *)
(***************************************************************************)
\* obj with every Reference to a key of id_map replaced by its value
RECURSIVE Substituted(_, _)
Substituted(obj, id_map) ==
    [f \in DOMAIN obj |->
        CASE f = "ref" -> IF obj.ref \in DOMAIN id_map THEN id_map[obj.ref] ELSE obj.ref
          [] f = "arr" -> [i \in DOMAIN obj.arr |-> Substituted(obj.arr[i], id_map)]
          [] f = "dict" -> [k \in DOMAIN obj.dict |-> Substituted(obj.dict[k], id_map)]
          [] OTHER -> obj[f]]

\* the root Pages object keeps what it had: every entry but Kids and Count, and
\* its Kids in front of the appended ones
RootKept(before, after) ==
    IF before.t # "Dictionary" THEN after = before
    ELSE /\ after.t = "Dictionary"
         /\ DOMAIN after.dict = DOMAIN before.dict
         /\ \A k \in DOMAIN before.dict \ {"Kids", "Count"} : after.dict[k] = before.dict[k]
         /\ "Kids" \in DOMAIN before.dict =>
               IF before.dict["Kids"].t = "Array"
               THEN /\ after.dict["Kids"].t = "Array"
                    /\ Len(after.dict["Kids"].arr) >= Len(before.dict["Kids"].arr)
                    /\ SubSeq(after.dict["Kids"].arr, 1, Len(before.dict["Kids"].arr))
                          = before.dict["Kids"].arr
               ELSE after.dict["Kids"] = before.dict["Kids"]

FoldRewrites ==
    (Merging /\ idx' = idx + 1) =>
        LET src == disk[input_paths[idx]].doc
            id_map == id_maps'[Len(id_maps')]
        IN  /\ \A old_id \in DOMAIN src.objects :
                  base_doc'.objects[id_map[old_id]]
                      = Substituted(src.objects[old_id], id_map)
            /\ \A id \in DOMAIN base_doc.objects :
                  IF PagesRefOk(base_doc) /\ id = PagesId(base_doc)
                  THEN RootKept(base_doc.objects[id], base_doc'.objects[id])
                  ELSE base_doc'.objects[id] = base_doc.objects[id]

(* C21: folding a source into the base stores each copied object with every Reference to a key of that source's id_map replaced by its mapped id, at any depth through arrays, dictionaries and stream dictionaries; other References, other values and every object the base held before are left as they were. *)
C21_RewritesCopiedOnly == [][FoldRewrites]_vars

C21_Witness ==
    /\ Merging
    /\ input_paths = <<"a.pdf", "d.pdf", "a.pdf">>
    /\ idx = 3
    /\ base_doc.objects[<<10, 0>>]
          = Stream([Length |-> R(9), Filter |-> Array(<<R(7)>>)], "d1")
    /\ base_doc.objects[<<9, 0>>].dict["Annots"]
          = Array(<<R(9), Array(<<R(9), Integer(1)>>)>>)
    /\ base_doc.objects[<<3, 0>>] = DocA.objects[<<3, 0>>]



(***************************************************************************)
(* merge_pdfs: the splice into the base page tree.                         *)
(***************************************************************************)
\* the root Pages object of d, Null when the Catalog leads to none
RootPages(d) ==
    IF PagesRefOk(d) /\ HasObject(d, PagesId(d)) THEN d.objects[PagesId(d)] ELSE Null

\* the entries of the root's inline Kids array
RootKids(d) ==
    IF RootPages(d).t = "Dictionary" /\ "Kids" \in DOMAIN RootPages(d).dict
       /\ RootPages(d).dict["Kids"].t = "Array"
    THEN Range(RootPages(d).dict["Kids"].arr)
    ELSE {}

RootKidsLen(d) ==
    IF RootPages(d).t = "Dictionary" /\ "Kids" \in DOMAIN RootPages(d).dict
       /\ RootPages(d).dict["Kids"].t = "Array"
    THEN Len(RootPages(d).dict["Kids"].arr)
    ELSE 0

RootCount(d) ==
    IF RootPages(d).t = "Dictionary" /\ "Count" \in DOMAIN RootPages(d).dict
       /\ RootPages(d).dict["Count"].t = "Integer"
    THEN RootPages(d).dict["Count"].int
    ELSE 0

\* every page of every source folded in is a kid of the output's root
SourcePagesSpliced(out) ==
    \A i \in DOMAIN id_maps :
        LET pages_of_source == get_pages(Disk0[input_paths[i + 1]].doc)
        IN  \A j \in DOMAIN pages_of_source :
                R(id_maps[i][pages_of_source[j]][1]) \in RootKids(out)

(* C22: when merge_pdfs returns success after folding sources in, every page of every source is in the Kids of the output's root Pages object, and Kids and Count have grown by the same number; a splice that cannot be done is an error instead. *)
C22_SpliceFailuresSurfaced ==
    (MergeDone /\ Len(input_paths) >= 2) =>
        LET out == disk[OutPath].doc
            first == Disk0[input_paths[1]].doc
        IN  /\ SourcePagesSpliced(out)
            /\ RootKidsLen(out) - RootKidsLen(first) = RootCount(out) - RootCount(first)



(* C23: remove_watermark on a document in which every Reference resolves writes a document in which every Reference of a live object resolves, also the references to removed objects held outside the pages' Annots arrays. *)
C23_WatermarkNoDangling ==
    (WatermarkDone /\ NoDangling(WatermarkInput)) => NoDangling(WatermarkOutput)



ParentsAgree(d) ==
    \A id \in PagesNodesUnder(d, PagesId(d), Cardinality(DOMAIN d.objects)) :
        \A i \in DOMAIN KidsOf(d, id) :
            LET kid == KidsOf(d, id)[i]
            IN  (kid.t = "Reference" /\ IsDictAt(d, kid.ref))
                    => /\ "Parent" \in DOMAIN d.objects[kid.ref].dict
                       /\ d.objects[kid.ref].dict["Parent"] = Reference(id)

(* C25: after a merge of documents whose page trees are consistent, every kid of every Pages node reachable from the Catalog has that node as its Parent; so has every source page appended to the root's Kids. *)
C25_ParentsAgree ==
    (MergeDone /\ Len(input_paths) >= 2
        /\ \A i \in DOMAIN input_paths :
              ValidInput(input_paths[i]) /\ ParentsAgree(Disk0[input_paths[i]].doc))
      => ParentsAgree(disk[OutPath].doc)



\* the list without the later occurrences of a page number
RECURSIVE WithoutRepeats(_)
WithoutRepeats(pages) ==
    IF pages = <<>> THEN <<>>
    ELSE LET front == WithoutRepeats(SubSeq(pages, 1, Len(pages) - 1))
             last == pages[Len(pages)]
         IN  IF last \in Range(front) THEN front ELSE Append(front, last)

(* C26: delete_pages accepts or rejects a page list exactly as it does the same list with the repeats removed, and when it accepts leaves the same surviving pages. *)
C26_DeleteListIsSet ==
    (op = "delete_pages" /\ pc = "done" /\ Disk0[input_paths[1]].kind = "pdf") =>
        LET alone == DeleteAlone(input_paths[1], WithoutRepeats(pages_to_delete))
        IN  /\ result.ok = alone.result.ok
            /\ result.ok => PageLabels(disk[OutPath].doc) = PageLabels(alone.file.doc)



\* the step that saves and returns, of a call whose input is the written output
SavesOverOwnOutput ==
    /\ op = "remove_watermark"
    /\ pc = "watermark_pages"
    /\ pc' = "done"
    /\ input_paths = <<OutPath>>
    /\ result'.ok

SecondRemovalIsIdle ==
    SavesOverOwnOutput =>
        /\ result'.items_removed = 0
        /\ ~result'.success
        /\ disk'[OutPath].doc.objects = disk[OutPath].doc.objects
        /\ \A i \in DOMAIN get_pages(disk[OutPath].doc) :
              AnnotsOf(disk'[OutPath].doc, get_pages(disk[OutPath].doc)[i])
                  = AnnotsOf(disk[OutPath].doc, get_pages(disk[OutPath].doc)[i])

(* C27: remove_watermark applied to its own output reports items_removed = 0 and success = false and leaves the object mapping and every page's Annots array as they were. *)
C27_RemovalIdempotent == [][SecondRemovalIsIdle]_vars

C27_Witness ==
    /\ op = "remove_watermark"
    /\ pc = "done"
    /\ calls = 1
    /\ input_paths = <<OutPath>>
    /\ result.ok
    /\ result.items_removed = 0
    /\ <<13, 0>> \notin DOMAIN disk[OutPath].doc.objects
    /\ <<17, 0>> \in DOMAIN disk[OutPath].doc.objects
    /\ AnnotsOf(disk[OutPath].doc, <<3, 0>>) = <<R(11), Dictionary([Subtype |-> Name("Link")])>>



(***************************************************************************)
(* The DownloadManager.                                                    *)
(***************************************************************************)
\* the Receiver that the add_job of this job returned, still held by the caller
ReceiverOf(job) == manager.channels[job.rx]

(* C28: under every interleaving of add_job, cancel_job and remove_job on one job id, a job recorded as Cancelled has its cancellation signal set: the Receiver that add_job returned for it reads true. *)
C28_CancelledIsSignalled ==
    \A job_id \in DOMAIN manager.jobs :
        (/\ manager.jobs[job_id].status = "Cancelled"
         /\ ReceiverOf(manager.jobs[job_id]).returned
         /\ ReceiverOf(manager.jobs[job_id]).rx_alive)
            => ReceiverOf(manager.jobs[job_id]).value



(***************************************************************************)
(* SimpleDownloader.                                                       *)
(***************************************************************************)
(* C29: when the cancel signal became true before download returned, download returns the error "Download cancelled", the output file does not exist and no download-complete event was emitted, wherever the signal arrived relative to the chunks of the stream. *)
C29_CancelledDownload ==
    (downloader.op = "download" /\ downloader.pc = "done" /\ downloader.cancel) =>
        /\ downloader.result = Err("Download cancelled")
        /\ OutputFile \notin downloader.files
        /\ "download-complete" \notin downloader.events

(* C30: when download_and_merge returns an error, neither the temporary video file nor the temporary audio file is on disk. *)
C30_TempsRemovedOnError ==
    (downloader.op = "download_and_merge" /\ downloader.pc = "done"
        /\ ~downloader.result.ok)
      => /\ VideoTemp \notin downloader.files
         /\ AudioTemp \notin downloader.files

====
